---- MODULE Spec2Model ----
(***************************************************************************)
(* Memory & Soul Passport (MSP): the orchestrator of MSP.py over its       *)
(* file-backed store, with the semantic validator and the confidence       *)
(* updater it calls.                                                       *)
(*                                                                         *)
(* The store is modelled file by file: a JSON master or buffer file is a   *)
(* record [exists, items] (items = the list under "episodes"/"entries",    *)
(* which is what load_json(path).get(key, []) yields), a directory is a    *)
(* member of a set, a backup is a record of directory copies plus its      *)
(* backup_metadata.json.  Confidence is kept in thousandths (0.70 = 700).  *)
(* Wall-clock stamps inside records (written_at, created_at, ...) are left *)
(* out; the clock is kept where the code derives a name from it (the       *)
(* backup directory, MSP.py:728-729).                                      *)
(***************************************************************************)
EXTENDS Integers, Sequences, FiniteSets, TLC

VARIABLES
    clock,                  \* wall clock in whole seconds (strftime %Y%m%d_%H%M%S)
    origin_dirs,            \* which of Origin's memory directories exist
    episodic_master,        \* 01_Episodic_memory/Episodic_memory.json
    semantic_master,        \* 02_Semantic_memory/Semantic_memory.json
    sensory_master,         \* 03_Sensory_memory/Sensory_memory.json
    user_block,             \* 07_User_block/User_Block.json
    version_file,           \* version.json
    backups,                \* Backups/Origin_v<N>_<timestamp>/
    buffers,                \* Buffer/instance_<id>/
    session_files,          \* 04_Session_Memory/Session_memory_<session_id>.json
    origin_name,            \* MSP.origin_name
    master_state,           \* MSP.master_state (the part later code reads)
    instance_id,            \* MSP.instance_id
    session_id,             \* MSP.session_id
    session_episode_count,  \* MSP.session_episode_count
    validation_mode,        \* MSP.validation_mode
    faults,                 \* number of environment faults injected so far
    last                    \* the last call: operation, error raised, value returned

vars == <<clock, origin_dirs, episodic_master, semantic_master, sensory_master,
          user_block, version_file, backups, buffers, session_files,
          origin_name, master_state, instance_id, session_id,
          session_episode_count, validation_mode, faults, last>>

origin_vars == <<origin_dirs, episodic_master, semantic_master, sensory_master,
                 user_block, version_file>>

(***************************************************************************)
(* Bounds of the model                                                     *)
(***************************************************************************)
MaxTime == 1
MaxVersion == 2
MaxBufferEpisodes == 2
MaxBufferEntries == 1
MaxFaults == 1
MaxSignals == 5

(***************************************************************************)
(* Values                                                                  *)
(***************************************************************************)
None == "None"

NoFile == [exists |-> FALSE, items |-> <<>>]

File(items) == [exists |-> TRUE, items |-> items]

EpisodicDir == "01_Episodic_memory"
SemanticDir == "02_Semantic_memory"
SensoryDir == "03_Sensory_memory"
UserBlockDir == "07_User_block"

dirs_to_backup == <<EpisodicDir, SemanticDir, SensoryDir, UserBlockDir>>

Range(s) == {s[i] : i \in DOMAIN s}

\* f"THA_{instance_count:02d}_S01"
AutoInstanceId(n) == <<"THA_01_S01", "THA_02_S01", "THA_03_S01", "THA_04_S01">>[n]

\* f"S{session_count:02d}"
AutoSessionId(n) == <<"S01", "S02", "S03", "S04", "S05">>[n]

\* The instance ids and session ids the specifications below let exist
InstanceIds == {"THA_01_S01"}

SessionIds == {"S01"}

\* uuid.uuid4().hex[:6] / [:8]
Uuids == {"a1b2c3"}

RiLevels == {"L1", "L2", "L3"}

ValidationModes == {"strict", "warn", "off"}

(***************************************************************************)
(* Reading the store                                                       *)
(***************************************************************************)
\* MSP._get_current_version: version.json's "version", 1 when the file is missing
_get_current_version == IF version_file.exists THEN version_file.version ELSE 1

\* Seeded fault for C4: the version counter skips a number
_increment_version_by_two == [exists |-> TRUE, version |-> _get_current_version + 2]

\* MSP._increment_version: the version.json it writes
_increment_version == [exists |-> TRUE, version |-> _get_current_version + 1]

\* The content of one of Origin's memory directories, as shutil.copytree sees it
OriginDir(d) ==
    CASE d = EpisodicDir -> episodic_master
      [] d = SemanticDir -> semantic_master
      [] d = SensoryDir -> sensory_master
      [] d = UserBlockDir -> user_block

\* A directory copy that failed part-way: the directory exists, its file does not
PartialCopy == [exists |-> FALSE, items |-> <<"partial">>]

\* errors: the error strings an MSPValidationError carries
Last(op, error, failed_at, ret) ==
    [op |-> op, error |-> error, failed_at |-> failed_at, ret |-> ret,
     errors |-> <<>>]

(***************************************************************************)
(* Episodes.  A proposal is the dict handed to write_episode, kept to the  *)
(* keys the orchestrator and the validation gate read: its episode_id (or  *)
(* None), whether the four required sections are present, and whether it   *)
(* carries the denylisted key "RI".  A proposal may also carry the keys    *)
(* episode_type (the value of episode_header.episode_type), turns (the     *)
(* list of turns), emotive_snapshot, msp_metadata and context (a nested    *)
(* JSON value); where such a key is left out, that part of the episode is  *)
(* well-formed or absent.  Values are kept to                              *)
(* their JSON type and the parts the validator reads.                      *)
(***************************************************************************)
Proposals ==
    { [episode_id |-> None, sections |-> TRUE, RI |-> FALSE],
      [episode_id |-> "ep_custom_1", sections |-> TRUE, RI |-> FALSE],
      [episode_id |-> None, sections |-> TRUE, RI |-> TRUE] }

EPISODE_TYPES == {"interaction", "observation", "system_event"}

\* Turns: an object with a string turn_id, an object whose turn_id is a
\* number, an object without turn_id, a number, and a string
GoodTurn == [type |-> "dict", turn_id |-> [type |-> "str", value |-> "t1"]]

NumberedTurn == [type |-> "dict", turn_id |-> [type |-> "int", value |-> "7"]]

AnonymousTurn == [type |-> "dict"]

IntTurn == [type |-> "int"]

StrTurn == [type |-> "str"]

\* EpisodicValidator._validate_turns from turn i on, seen the turn_ids met so far
RECURSIVE _validate_turns(_, _, _)
_validate_turns(turns, i, seen) ==
    IF i > Len(turns) THEN <<>>
    ELSE LET turn == turns[i] IN
         IF turn.type # "dict"
         THEN << <<"Turn must be an object", ToString(i - 1)>> >>
                  \o _validate_turns(turns, i + 1, seen)
         ELSE IF "turn_id" \notin DOMAIN turn
         THEN << <<"Turn missing 'turn_id'", ToString(i - 1)>> >>
                  \o _validate_turns(turns, i + 1, seen)
         ELSE (IF turn.turn_id \in seen
               THEN << <<"Duplicate turn_id", turn.turn_id.value>> >> ELSE <<>>)
                  \o _validate_turns(turns, i + 1, seen \cup {turn.turn_id})

\* EpisodicValidator._phase1_structural: required sections (L3+ only), the
\* episode_type enum, the turns
_phase1_structural(episode_data, ri_level) ==
    (IF ri_level \notin {"L1", "L2"} /\ ~episode_data.sections
     THEN << <<"Missing required field", "sections">> >> ELSE <<>>)
    \o (IF /\ "episode_type" \in DOMAIN episode_data
            /\ episode_data.episode_type \notin EPISODE_TYPES
         THEN << <<"Invalid enum value", "episode_header.episode_type">> >>
         ELSE <<>>)
    \o (IF "turns" \in DOMAIN episode_data
         THEN _validate_turns(episode_data.turns, 1, {}) ELSE <<>>)

\* EpisodicValidator._phase2_epistemic raises TypeError: '"turn_id" in turn' on
\* a number, or _is_msp_id_format ('"_" in id_value') on a turn_id that is a
\* number.  On a string turn the membership test is a substring test and is
\* False.
_phase2_epistemic_raises(episode_data) ==
    /\ "turns" \in DOMAIN episode_data
    /\ \E i \in DOMAIN episode_data.turns :
           LET turn == episode_data.turns[i] IN
           \/ turn.type = "int"
           \/ /\ turn.type = "dict"
              /\ "turn_id" \in DOMAIN turn
              /\ turn.turn_id.type # "str"

\* EpisodicValidator._phase3_state raises AttributeError: emotive_snapshot.get
\* on a value that is not an object
_phase3_state_raises(episode_data) ==
    /\ "emotive_snapshot" \in DOMAIN episode_data
    /\ episode_data.emotive_snapshot.type # "dict"

\* EpisodicValidator._phase3_state, when it does not raise.  An
\* emotive_snapshot object may hold indexed_state, given as the set of the
\* parts it has (each of them well-formed); without indexed_state, or with an
\* empty one, the phase adds an info line and returns, whatever the RI level
INDEXED_STATE_PARTS == <<"eva_matrix", "qualia", "reflex">>

_phase3_state(episode_data) ==
    IF \/ "emotive_snapshot" \notin DOMAIN episode_data
       \/ episode_data.emotive_snapshot.type # "dict"
       \/ "indexed_state" \notin DOMAIN episode_data.emotive_snapshot
       \/ episode_data.emotive_snapshot.indexed_state = {}
    THEN <<>>
    ELSE LET indexed_state == episode_data.emotive_snapshot.indexed_state
             missing == SelectSeq(INDEXED_STATE_PARTS,
                                  LAMBDA part : part \notin indexed_state)
         IN [k \in DOMAIN missing |-> <<"indexed_state missing", missing[k]>>]

\* JSON values below the top level of an episode: an object is the sequence
\* of its key/value pairs, a list the sequence of its items
Pair(key, value) == [key |-> key, value |-> value]

JDict(items) == [type |-> "dict", items |-> items]

JList(items) == [type |-> "list", items |-> items]

JNum == [type |-> "int"]

\* rules/forbidden_fields.py
EPISODIC_FORBIDDEN_FIELDS ==
    {"RI", "RIM", "Resonance_impact", "salience_score", "memory_color_ref",
     "dose_input", "D_Remaining", "D_Cumulative", "hormone_level", "PK_state",
     "promotion_level", "write_mode", "admission_priority",
     "emotion_label", "primary_emotion", "emotional_label"}

\* BaseValidator._scan_for_forbidden_fields: ScanKeys is its loop over
\* data.items() from pair i on, ScanList its loop over the items of a list
\* value from item i on
RECURSIVE _scan_for_forbidden_fields(_, _, _)
RECURSIVE ScanKeys(_, _, _, _)
RECURSIVE ScanList(_, _, _, _)
_scan_for_forbidden_fields(data, forbidden_fields, path) ==
    IF data.type # "dict" THEN <<>>
    ELSE ScanKeys(data.items, 1, forbidden_fields, path)

ScanKeys(items, i, forbidden_fields, path) ==
    IF i > Len(items) THEN <<>>
    ELSE LET key == items[i].key
             value == items[i].value
             current_path == IF path = "" THEN key ELSE path \o "." \o key
         IN (IF key \in forbidden_fields
             THEN << <<"Forbidden field found", current_path>> >> ELSE <<>>)
            \o (IF value.type = "dict"
                THEN _scan_for_forbidden_fields(value, forbidden_fields,
                                                current_path)
                ELSE IF value.type = "list"
                THEN ScanList(value.items, 1, forbidden_fields, current_path)
                ELSE <<>>)
            \o ScanKeys(items, i + 1, forbidden_fields, path)

ScanList(items, i, forbidden_fields, current_path) ==
    IF i > Len(items) THEN <<>>
    ELSE (IF items[i].type = "dict"
          THEN _scan_for_forbidden_fields(
                   items[i], forbidden_fields,
                   current_path \o "[" \o ToString(i - 1) \o "]")
          ELSE <<>>)
         \o ScanList(items, i + 1, forbidden_fields, current_path)

\* EpisodicValidator._phase5_forbidden_content: the scan of the episode, whose
\* top-level keys are RI (where the proposal carries it) and context (where
\* the proposal has a nested value under that key)
_phase5_forbidden_content(episode_data) ==
    (IF episode_data.RI THEN << <<"Forbidden field found", "RI">> >> ELSE <<>>)
    \o (IF "context" \in DOMAIN episode_data
         THEN ScanKeys(<<Pair("context", episode_data.context)>>, 1,
                       EPISODIC_FORBIDDEN_FIELDS, "")
         ELSE <<>>)

\* Seeded fault for C14: the validator finds nothing
EpisodicErrors_none(episode_data, ri_level) == <<>>

\* EpisodicValidator.validate, when it returns: the error strings of the
\* phases, merged in order (phases 2 and 4 add no error for these proposals)
EpisodicErrors(episode_data, ri_level) ==
    _phase1_structural(episode_data, ri_level)
        \o _phase3_state(episode_data)
        \o _phase5_forbidden_content(episode_data)

\* EpisodicValidator.validate does not return: a phase raised
ValidatorRaises(episode_data) ==
    _phase2_epistemic_raises(episode_data) \/ _phase3_state_raises(episode_data)

\* f"ep_{session_id}_{count + 1:03d}_{uuid6}"
GeneratedEpisodeId(sid, n, u) == <<"ep", sid, n, u>>

\* episode.get(key, default)
Get(episode, key, default) ==
    IF key \in DOMAIN episode THEN episode[key] ELSE default

\* now_iso(): the wall clock
now_iso == clock

\* MSP._apply_ri_filter: L1 keeps episode_id, timestamp and emotive_snapshot,
\* L2 also summary, each with its default where the episode lacks the key, and
\* both drop every other key; any other level returns the episode itself.
\* now is the value now_iso() returns during the call
_apply_ri_filter_at(episode, ri_level, now) ==
    IF ri_level = "L1"
    THEN [episode_id |-> episode.episode_id, sections |-> FALSE, RI |-> FALSE,
          timestamp |-> Get(episode, "timestamp", now),
          emotive_snapshot |-> Get(episode, "emotive_snapshot", [type |-> "dict"])]
    ELSE IF ri_level = "L2"
    THEN [episode_id |-> episode.episode_id, sections |-> FALSE, RI |-> FALSE,
          timestamp |-> Get(episode, "timestamp", now),
          summary |-> Get(episode, "summary", ""),
          emotive_snapshot |-> Get(episode, "emotive_snapshot", [type |-> "dict"])]
    ELSE episode

_apply_ri_filter(episode, ri_level) ==
    _apply_ri_filter_at(episode, ri_level, now_iso)

\* The msp_metadata stamped by write_episode
MspMetadata(ri_level) ==
    [written_by |-> "MSP", instance_id |-> instance_id,
     session_id |-> session_id, ri_level |-> ri_level]

\* Seeded fault for C17: msp_metadata is set only where the episode has none
AddMetadata_keeping_supplied(filtered_episode, ri_level) ==
    IF "msp_metadata" \in DOMAIN filtered_episode
    THEN filtered_episode
    ELSE [k \in DOMAIN filtered_episode \cup {"msp_metadata"} |->
             IF k = "msp_metadata" THEN MspMetadata(ri_level)
             ELSE filtered_episode[k]]

\* filtered_episode["msp_metadata"] = {...}
AddMetadata(filtered_episode, ri_level) ==
    [k \in DOMAIN filtered_episode \cup {"msp_metadata"} |->
        IF k = "msp_metadata" THEN MspMetadata(ri_level)
        ELSE filtered_episode[k]]

MaxEpisodesPerSession == 30

(***************************************************************************)
(* Initial state: a fresh MSP object over a base directory that is either  *)
(* empty or an established Origin (directories, master files with earlier  *)
(* content, version.json).                                                 *)
(***************************************************************************)
OldEpisode ==
    [episode_id |-> "ep_old", sections |-> TRUE, RI |-> FALSE,
     msp_metadata |-> [written_by |-> "MSP", instance_id |-> "OLD",
                       session_id |-> "S00", ri_level |-> "L3"]]

FreshBase ==
    /\ origin_dirs = {}
    /\ episodic_master = NoFile
    /\ semantic_master = NoFile
    /\ sensory_master = NoFile
    /\ user_block = NoFile
    /\ version_file = [exists |-> FALSE, version |-> 0]

EstablishedBase ==
    /\ origin_dirs = Range(dirs_to_backup)
    /\ episodic_master = File(<<OldEpisode>>)
    /\ semantic_master = File(<<>>)
    /\ sensory_master = File(<<>>)
    /\ user_block = File(<<"user_profile">>)
    /\ version_file = [exists |-> TRUE, version |-> 1]

InitMemory ==
    /\ clock = 0
    /\ backups = <<>>
    /\ buffers = <<>>
    /\ session_files = <<>>
    /\ origin_name = None
    /\ master_state = [version |-> 0]
    /\ instance_id = None
    /\ session_id = None
    /\ session_episode_count = 0
    /\ faults = 0
    /\ last = Last("init", "none", "none", 0)

Init ==
    /\ FreshBase \/ EstablishedBase
    /\ validation_mode = "strict"
    /\ InitMemory

(***************************************************************************)
(* The wall clock advances between calls                                   *)
(***************************************************************************)
Tick ==
    /\ clock' = clock + 1
    /\ UNCHANGED <<origin_vars, backups, buffers, session_files, origin_name,
                   master_state, instance_id, session_id, session_episode_count,
                   validation_mode, faults, last>>

\* Seeded fault for C25: a call that raises has set the Origin name first
Raises_after_naming_origin(op, error) ==
    /\ last' = Last(op, error, "none", 0)
    /\ origin_name' = "EVA"
    /\ UNCHANGED <<clock, origin_vars, backups, buffers, session_files,
                   master_state, instance_id, session_id,
                   session_episode_count, validation_mode, faults>>

\* A call that raises before touching anything
Raises(op, error) ==
    /\ last' = Last(op, error, "none", 0)
    /\ UNCHANGED <<clock, origin_vars, backups, buffers, session_files,
                   origin_name, master_state, instance_id, session_id,
                   session_episode_count, validation_mode, faults>>

(***************************************************************************)
(* 1. Origin management                                                    *)
(***************************************************************************)
\* Seeded fault for C6: load_origin writes version.json
load_origin_writing_version ==
    /\ origin_name' = "EVA"
    /\ master_state' = [version |-> _get_current_version]
    /\ version_file' = [exists |-> TRUE, version |-> _get_current_version]
    /\ last' = Last("load_origin", "none", "none", 0)
    /\ UNCHANGED <<clock, origin_dirs, episodic_master, semantic_master,
                   sensory_master, user_block, backups, buffers, session_files,
                   instance_id, session_id, session_episode_count,
                   validation_mode, faults>>

load_origin ==
    /\ origin_name' = "EVA"
    /\ master_state' = [version |-> _get_current_version]
    /\ last' = Last("load_origin", "none", "none", 0)
    /\ UNCHANGED <<clock, origin_vars, backups, buffers, session_files,
                   instance_id, session_id, session_episode_count,
                   validation_mode, faults>>

(***************************************************************************)
(* 2. Instance management                                                  *)
(***************************************************************************)
EmptyBuffer ==
    [episodic |-> NoFile, semantic |-> NoFile, sensory |-> NoFile,
     metadata |-> [instance_id |-> None, origin_name |-> None,
                   parent_version |-> 0, session_count |-> 0,
                   status |-> "active"]]

\* The metadata.json written by create_instance
InstanceMetadata(id) ==
    [instance_id |-> id, origin_name |-> origin_name,
     parent_version |-> master_state.version, session_count |-> 0,
     status |-> "active"]

create_instance(given) ==
    IF origin_name = None
    THEN Raises("create_instance", "RuntimeError")
    ELSE LET id == IF given = None
                   THEN AutoInstanceId(Cardinality(DOMAIN buffers) + 1)
                   ELSE given
             old == IF id \in DOMAIN buffers THEN buffers[id] ELSE EmptyBuffer
         IN /\ instance_id' = id
            /\ buffers' = [i \in DOMAIN buffers \cup {id} |->
                              IF i = id
                              THEN [old EXCEPT !.metadata = InstanceMetadata(id)]
                              ELSE buffers[i]]
            /\ last' = Last("create_instance", "none", "none", 0)
            /\ UNCHANGED <<clock, origin_vars, backups, session_files,
                           origin_name, master_state, session_id,
                           session_episode_count, validation_mode, faults>>

(***************************************************************************)
(* 3. Session management                                                   *)
(***************************************************************************)
start_session(given) ==
    IF instance_id = None
    THEN Raises("start_session", "RuntimeError")
    ELSE LET metadata == buffers[instance_id].metadata
             session_count == metadata.session_count + 1
         IN /\ session_id' = IF given = None THEN AutoSessionId(session_count)
                             ELSE given
            /\ buffers' = IF given = None
                          THEN [buffers EXCEPT ![instance_id].metadata.session_count
                                                   = session_count]
                          ELSE buffers
            /\ session_episode_count' = 0
            /\ last' = Last("start_session", "none", "none", 0)
            /\ UNCHANGED <<clock, origin_vars, backups, session_files,
                           origin_name, master_state, instance_id,
                           validation_mode, faults>>

\* Seeded fault for C12: the capacity test is off by one
session_full_after_one_more == session_episode_count > MaxEpisodesPerSession

\* write_episode: the session has reached its capacity
session_full == session_episode_count >= MaxEpisodesPerSession

write_episode(episode_data, ri_level, uuid) ==
    IF session_id = None
    THEN Raises("write_episode", "RuntimeError")
    ELSE IF session_full
    THEN Raises("write_episode", "RuntimeError")
    ELSE IF /\ validation_mode = "strict"
            /\ ~ValidatorRaises(episode_data)
            /\ EpisodicErrors(episode_data, ri_level) # <<>>
    THEN /\ last' = [Last("write_episode", "MSPValidationError", "none", 0)
                        EXCEPT !.errors = EpisodicErrors(episode_data, ri_level)]
         /\ UNCHANGED <<clock, origin_vars, backups, buffers, session_files,
                        origin_name, master_state, instance_id, session_id,
                        session_episode_count, validation_mode, faults>>
    ELSE LET episode_id ==
                 IF episode_data.episode_id = None
                 THEN GeneratedEpisodeId(session_id, session_episode_count + 1, uuid)
                 ELSE episode_data.episode_id
             with_id == [episode_data EXCEPT !.episode_id = episode_id]
             filtered_episode ==
                 AddMetadata(_apply_ri_filter(with_id, ri_level), ri_level)
             buffer_data == buffers[instance_id].episodic
         IN /\ buffers' = [buffers EXCEPT ![instance_id].episodic =
                              File(Append(buffer_data.items, filtered_episode))]
            /\ session_episode_count' = session_episode_count + 1
            /\ last' = Last("write_episode", "none", "none", 0)
            /\ UNCHANGED <<clock, origin_vars, backups, session_files,
                           origin_name, master_state, instance_id, session_id,
                           validation_mode, faults>>

(***************************************************************************)
(* Confidence updater (validation/confidence_updater.py), in thousandths   *)
(***************************************************************************)
Signals ==
    {"repeated_occurrence", "consistent_recall", "user_affirmation",
     "implicit_user_signal", "system_cross_validation", "conflict_detected",
     "contradiction_by_user", "inconsistency_over_time", "system_noise_detected"}

\* SIGNAL_MODIFIERS: value, max_applications (0 = None), single_application,
\* force_confirmed
SIGNAL_MODIFIERS(signal) ==
    CASE signal = "repeated_occurrence" ->
             [value |-> 50, max_applications |-> 3, single_application |-> FALSE, force_confirmed |-> FALSE]
      [] signal = "consistent_recall" ->
             [value |-> 40, max_applications |-> 3, single_application |-> FALSE, force_confirmed |-> FALSE]
      [] signal = "user_affirmation" ->
             [value |-> 300, max_applications |-> 0, single_application |-> TRUE, force_confirmed |-> TRUE]
      [] signal = "implicit_user_signal" ->
             [value |-> 100, max_applications |-> 0, single_application |-> FALSE, force_confirmed |-> FALSE]
      [] signal = "system_cross_validation" ->
             [value |-> 80, max_applications |-> 0, single_application |-> FALSE, force_confirmed |-> FALSE]
      [] signal = "conflict_detected" ->
             [value |-> -200, max_applications |-> 0, single_application |-> FALSE, force_confirmed |-> FALSE]
      [] signal = "contradiction_by_user" ->
             [value |-> -350, max_applications |-> 0, single_application |-> FALSE, force_confirmed |-> FALSE]
      [] signal = "inconsistency_over_time" ->
             [value |-> -100, max_applications |-> 0, single_application |-> FALSE, force_confirmed |-> FALSE]
      [] signal = "system_noise_detected" ->
             [value |-> -80, max_applications |-> 0, single_application |-> FALSE, force_confirmed |-> FALSE]

\* RESOLUTION_MULTIPLIERS, in halves (0.5 = 1, 1.0 = 2)
RESOLUTION_MULTIPLIERS(resolution_state) ==
    CASE resolution_state = "unresolved" -> [positive |-> 1, negative |-> 2]
      [] resolution_state = "resolved" -> [positive |-> 2, negative |-> 1]
      [] resolution_state = "suppressed" -> [positive |-> 0, negative |-> 0]

\* EPISTEMIC_THRESHOLDS
ConfirmedThreshold == 800
ProvisionalThreshold == 450

\* ConfidenceUpdater.initial_confidence
InitialConfidence == 300

\* MAX_CLARIFICATION_ATTEMPTS
MAX_CLARIFICATION_ATTEMPTS(stakes_level) ==
    CASE stakes_level = "low" -> 2
      [] stakes_level = "medium" -> 3
      [] stakes_level = "high" -> 4

Max(a, b) == IF a >= b THEN a ELSE b
Min(a, b) == IF a <= b THEN a ELSE b

\* The loop of calculate_confidence over signals[i..]; signal_history is the
\* history handed in, which the loop reads and never updates
RECURSIVE ApplySignals(_, _, _, _, _)
ApplySignals(confidence, signals, i, multipliers, signal_history) ==
    IF i > Len(signals) THEN confidence
    ELSE LET signal == signals[i]
             modifier == SIGNAL_MODIFIERS(signal)
             times_applied == signal_history[signal]
             value == IF modifier.value > 0
                      THEN (modifier.value * multipliers.positive) \div 2
                      ELSE -((-modifier.value * multipliers.negative) \div 2)
             added == confidence + value
             forced == IF modifier.force_confirmed /\ signal = "user_affirmation"
                       THEN Max(added, ConfirmedThreshold) ELSE added
         IN IF modifier.max_applications # 0 /\ times_applied >= modifier.max_applications
            THEN ApplySignals(confidence, signals, i + 1, multipliers, signal_history)
            ELSE IF modifier.single_application /\ times_applied > 0
            THEN ApplySignals(confidence, signals, i + 1, multipliers, signal_history)
            ELSE ApplySignals(forced, signals, i + 1, multipliers, signal_history)

\* ConfidenceUpdater.calculate_confidence
calculate_confidence(current_confidence, signals, resolution_state, signal_history) ==
    Max(0, Min(1000, ApplySignals(current_confidence, signals, 1,
                                  RESOLUTION_MULTIPLIERS(resolution_state),
                                  signal_history)))

\* Seeded fault for C26: the confirmed threshold is exclusive
get_epistemic_status_above(confidence) ==
    IF confidence > ConfirmedThreshold THEN "confirmed"
    ELSE IF confidence >= ProvisionalThreshold THEN "provisional"
    ELSE "hypothesis"

\* ConfidenceUpdater.get_epistemic_status
get_epistemic_status(confidence) ==
    IF confidence >= ConfirmedThreshold THEN "confirmed"
    ELSE IF confidence >= ProvisionalThreshold THEN "provisional"
    ELSE "hypothesis"

\* ConfidenceUpdater.should_consolidate
should_consolidate(confidence) == confidence > 700

NoHistory == [s \in Signals |-> 0]

\* Seeded fault for C18: a low-stakes entry starts as provisional
create_initial_entry_by_stakes(concept, definition, stakes_level) ==
    [concept |-> concept,
     definition |-> definition,
     epistemic_status |-> IF stakes_level = "low" THEN "provisional" ELSE "hypothesis",
     confidence |-> IF stakes_level = "low" THEN ProvisionalThreshold
                    ELSE InitialConfidence,
     resolution_state |-> "unresolved",
     signal_history |-> NoHistory,
     clarification_attempts |-> 0,
     stakes_level |-> stakes_level,
     max_clarification_attempts |-> MAX_CLARIFICATION_ATTEMPTS(stakes_level)]

\* Seeded fault for C39: a high-stakes entry starts as confirmed
create_initial_entry_trusting_high(concept, definition, stakes_level) ==
    [concept |-> concept,
     definition |-> definition,
     epistemic_status |-> IF stakes_level = "high" THEN "confirmed" ELSE "hypothesis",
     confidence |-> IF stakes_level = "high" THEN ConfirmedThreshold
                    ELSE InitialConfidence,
     resolution_state |-> "unresolved",
     signal_history |-> NoHistory,
     clarification_attempts |-> 0,
     stakes_level |-> stakes_level,
     max_clarification_attempts |-> MAX_CLARIFICATION_ATTEMPTS(stakes_level)]

\* ConfidenceUpdater.create_initial_entry
create_initial_entry(concept, definition, stakes_level) ==
    [concept |-> concept,
     definition |-> definition,
     epistemic_status |-> get_epistemic_status(InitialConfidence),
     confidence |-> InitialConfidence,
     resolution_state |-> "unresolved",
     signal_history |-> NoHistory,
     clarification_attempts |-> 0,
     stakes_level |-> stakes_level,
     max_clarification_attempts |-> MAX_CLARIFICATION_ATTEMPTS(stakes_level)]

\* Occurrences of signal in a batch
Count(signals, signal) == Cardinality({i \in DOMAIN signals : signals[i] = signal})

\* ConfidenceUpdater.update_entry
update_entry(entry, signals) ==
    LET new_confidence == calculate_confidence(entry.confidence, signals,
                              entry.resolution_state, entry.signal_history)
        new_status == get_epistemic_status(new_confidence)
    IN [entry EXCEPT
          !.confidence = new_confidence,
          !.epistemic_status = new_status,
          !.signal_history = [s \in Signals |-> @[s] + Count(signals, s)],
          !.resolution_state =
              IF new_status = "confirmed" /\ entry.resolution_state = "unresolved"
              THEN "resolved" ELSE @]

\* Seeded fault for C31: the limit is exceeded only past max_attempts
check_clarification_limit_past(attempts, stakes_level) ==
    attempts > MAX_CLARIFICATION_ATTEMPTS(stakes_level)

\* ConfidenceUpdater.check_clarification_limit
check_clarification_limit(attempts, stakes_level) ==
    attempts >= MAX_CLARIFICATION_ATTEMPTS(stakes_level)

\* ConfidenceUpdater.should_ask_clarification
should_ask_clarification(entry) ==
    ~check_clarification_limit(entry.clarification_attempts, entry.stakes_level)

\* ConfidenceUpdater.increment_clarification_attempt
increment_clarification_attempt(entry) ==
    [entry EXCEPT !.clarification_attempts = @ + 1]

\* Seeded fault for C27: the loop exit suppresses an entry in any state
force_exit_loop_always(entry) ==
    [k \in DOMAIN entry \cup {"forced_exit"} |->
        IF k = "forced_exit" THEN TRUE
        ELSE IF k = "resolution_state" THEN "suppressed"
        ELSE entry[k]]

\* ConfidenceUpdater.force_exit_loop
force_exit_loop(entry) ==
    IF entry.resolution_state = "unresolved"
    THEN [k \in DOMAIN entry \cup {"forced_exit"} |->
             IF k = "forced_exit" THEN TRUE
             ELSE IF k = "resolution_state" THEN "suppressed"
             ELSE entry[k]]
    ELSE entry

\* get_stakes_level_from_topic: "high" when concept or definition holds a
\* health/safety keyword
HealthTexts == {"allergy to peanuts"}

get_stakes_level_from_topic(concept, definition) ==
    IF definition \in HealthTexts THEN "high" ELSE "medium"

(***************************************************************************)
(* Semantic validator (validation/semantic_validator.py).  A concept is a  *)
(* sequence of characters.                                                 *)
(***************************************************************************)
LowerCase == {"t", "e", "a"}
Digits == {"1"}

\* SemanticValidator._is_lowercase_snake_case:
\* ^[a-z][a-z0-9_]*[a-z0-9]$|^[a-z]$
_is_lowercase_snake_case(s) ==
    \/ Len(s) = 1 /\ s[1] \in LowerCase
    \/ /\ Len(s) >= 2
       /\ s[1] \in LowerCase
       /\ \A i \in 2..(Len(s) - 1) : s[i] \in LowerCase \cup Digits \cup {"_"}
       /\ s[Len(s)] \in LowerCase \cup Digits

Has(entry, field) == field \in DOMAIN entry

\* SemanticValidator._validate_structure
_validate_structure(entry) ==
    (IF ~Has(entry, "concept") THEN <<"Missing required field: 'concept'">> ELSE <<>>)
    \o (IF ~Has(entry, "epistemic_status")
        THEN <<"Missing required field: 'epistemic_status'">> ELSE <<>>)
    \o (IF ~Has(entry, "confidence")
        THEN <<"Missing required field: 'confidence'">> ELSE <<>>)
    \o (IF ~Has(entry, "derived_from")
        THEN <<"Missing required field: 'derived_from'">> ELSE <<>>)
    \o (IF Has(entry, "epistemic_status")
           /\ entry.epistemic_status \notin {"hypothesis", "provisional", "confirmed"}
        THEN <<"Invalid enum value for 'epistemic_status'">> ELSE <<>>)
    \o (IF Has(entry, "resolution_state")
           /\ entry.resolution_state \notin {"unresolved", "resolved", "suppressed"}
        THEN <<"Invalid enum value for 'resolution_state'">> ELSE <<>>)
    \o (IF Has(entry, "derived_from") /\ ~Has(entry.derived_from, "episode_id")
        THEN <<"'derived_from' missing 'episode_id'">> ELSE <<>>)

\* SemanticValidator._validate_concept_format (its errors)
_validate_concept_format(entry) ==
    IF ~Has(entry, "concept") \/ entry.concept = <<>> THEN <<>>
    ELSE IF ~_is_lowercase_snake_case(entry.concept)
    THEN <<"Concept must be lowercase_snake_case format">> ELSE <<>>

\* SemanticValidator._validate_confidence (its errors): BaseValidator._check_range
_validate_confidence(entry) ==
    IF ~Has(entry, "confidence") THEN <<>>
    ELSE IF ~(0 <= entry.confidence /\ entry.confidence <= 1000)
    THEN <<"Field 'confidence' value out of range">> ELSE <<>>

\* SEMANTIC_FORBIDDEN_FIELDS
SEMANTIC_FORBIDDEN_FIELDS == {"promotion_level", "write_mode", "user_block"}

\* SemanticValidator._validate_forbidden_fields over the keys of the entry and
\* of its derived_from object
_validate_forbidden_fields(entry) ==
    IF \/ DOMAIN entry \cap SEMANTIC_FORBIDDEN_FIELDS # {}
       \/ /\ Has(entry, "derived_from")
          /\ DOMAIN entry.derived_from \cap SEMANTIC_FORBIDDEN_FIELDS # {}
    THEN <<"Forbidden field found">> ELSE <<>>

\* detect_conflict: the first existing entry with the same concept and another
\* definition, or one named in the new entry's conflicts_with
RECURSIVE detect_conflict(_, _, _)
detect_conflict(new_entry, existing_entries, i) ==
    IF i > Len(existing_entries) THEN [found |-> FALSE, concept |-> <<>>]
    ELSE LET existing == existing_entries[i]
             conflicts_with == IF Has(new_entry, "conflicts_with")
                               THEN new_entry.conflicts_with ELSE <<>>
         IN IF \/ /\ existing.concept = new_entry.concept
                  /\ existing.definition # new_entry.definition
               \/ existing.concept \in Range(conflicts_with)
            THEN [found |-> existing.concept # <<>>, concept |-> existing.concept]
            ELSE detect_conflict(new_entry, existing_entries, i + 1)

\* SemanticValidator.validate: the merged errors of the five phases and the
\* conflict context of phase 4
SemanticValidate(entry, existing_entries) ==
    [errors |-> _validate_structure(entry) \o _validate_concept_format(entry)
                \o _validate_confidence(entry) \o _validate_forbidden_fields(entry),
     conflict |-> IF existing_entries # <<>>
                  THEN detect_conflict(entry, existing_entries, 1)
                  ELSE [found |-> FALSE, concept |-> <<>>]]

\* SemanticValidator.CONSOLIDATION_THRESHOLD
CONSOLIDATION_THRESHOLD == 700

\* Seeded fault for C10: the threshold itself passes
validate_for_consolidation_at_threshold(entry) ==
    LET confidence == IF Has(entry, "confidence") THEN entry.confidence ELSE 0
    IN IF confidence < CONSOLIDATION_THRESHOLD THEN FALSE
       ELSE SemanticValidate(entry, <<>>).errors = <<>>

\* SemanticValidator.validate_for_consolidation
validate_for_consolidation(entry) ==
    LET confidence == IF Has(entry, "confidence") THEN entry.confidence ELSE 0
    IN IF confidence <= CONSOLIDATION_THRESHOLD THEN FALSE
       ELSE SemanticValidate(entry, <<>>).errors = <<>>

(***************************************************************************)
(* write_semantic, and the caller's confidence update of a buffered entry  *)
(***************************************************************************)
\* The errors write_semantic does not count as major: those whose text names
\* a field MSP itself attaches after validation
AuthorityFieldErrors ==
    {"Missing required field: 'epistemic_status'",
     "Missing required field: 'confidence'"}

\* turn_ids: a list of turn ids; <<>> stands for None and for the empty list,
\* which 'if turn_ids:' treats alike
write_semantic(concept, definition, episode_id, turn_ids, stakes_given, uuid) ==
    IF session_id = None
    THEN Raises("write_semantic", "RuntimeError")
    ELSE LET stakes_level == IF stakes_given = None
                             THEN get_stakes_level_from_topic(concept, definition)
                             ELSE stakes_given
             proposal_data == [concept |-> concept, definition |-> definition,
                               derived_from |->
                                   IF turn_ids # <<>>
                                   THEN [episode_id |-> episode_id,
                                         turn_ids |-> turn_ids]
                                   ELSE [episode_id |-> episode_id]]
             existing_entries == buffers[instance_id].semantic.items
             result == SemanticValidate(proposal_data, existing_entries)
             major_errors == SelectSeq(result.errors,
                                       LAMBDA e : e \notin AuthorityFieldErrors)
             conflicts_with == IF validation_mode # "off" /\ result.conflict.found
                               THEN <<result.conflict.concept>> ELSE <<>>
             initial == create_initial_entry(concept, definition, stakes_level)
             entry == [concept |-> concept,
                       definition |-> definition,
                       epistemic_status |-> initial.epistemic_status,
                       confidence |-> initial.confidence,
                       resolution_state |-> initial.resolution_state,
                       signal_history |-> initial.signal_history,
                       clarification_attempts |-> initial.clarification_attempts,
                       stakes_level |-> initial.stakes_level,
                       max_clarification_attempts |-> initial.max_clarification_attempts,
                       derived_from |-> proposal_data.derived_from,
                       conflicts_with |-> conflicts_with,
                       semantic_id |-> <<"sem", session_id, uuid>>]
         IN IF validation_mode = "strict" /\ major_errors # <<>>
            THEN Raises("write_semantic", "MSPValidationError")
            ELSE /\ buffers' = [buffers EXCEPT ![instance_id].semantic =
                                   File(Append(existing_entries, entry))]
                 /\ last' = Last("write_semantic", "none", "none", 0)
                 /\ UNCHANGED <<clock, origin_vars, backups, session_files,
                                origin_name, master_state, instance_id,
                                session_id, session_episode_count,
                                validation_mode, faults>>

RECURSIVE SumOver(_, _)
SumOver(f, S) ==
    IF S = {} THEN 0
    ELSE LET x == CHOOSE y \in S : TRUE IN f[x] + SumOver(f, S \ {x})

\* The caller loads the semantic buffer of the active instance, applies
\* ConfidenceUpdater.update_entry to entry i and saves the buffer
update_buffered_entry(i, signals) ==
    /\ instance_id # None
    /\ i \in DOMAIN buffers[instance_id].semantic.items
    /\ LET entry == buffers[instance_id].semantic.items[i]
       IN buffers' = [buffers EXCEPT ![instance_id].semantic.items[i] =
                         update_entry(entry, signals)]
    /\ last' = Last("update_buffered_entry", "none", "none", 0)
    /\ UNCHANGED <<clock, origin_vars, backups, session_files, origin_name,
                   master_state, instance_id, session_id,
                   session_episode_count, validation_mode, faults>>

\* The caller applies ConfidenceUpdater.force_exit_loop to entry i of the
\* active instance's semantic buffer and saves the buffer
force_exit_buffered_entry(i) ==
    /\ instance_id # None
    /\ i \in DOMAIN buffers[instance_id].semantic.items
    /\ buffers' = [buffers EXCEPT ![instance_id].semantic.items[i] =
                      force_exit_loop(@)]
    /\ last' = Last("force_exit_buffered_entry", "none", "none", 0)
    /\ UNCHANGED <<clock, origin_vars, backups, session_files, origin_name,
                   master_state, instance_id, session_id,
                   session_episode_count, validation_mode, faults>>

\* ... and ConfidenceUpdater.increment_clarification_attempt
increment_buffered_attempt(i) ==
    /\ instance_id # None
    /\ i \in DOMAIN buffers[instance_id].semantic.items
    /\ buffers' = [buffers EXCEPT ![instance_id].semantic.items[i] =
                      increment_clarification_attempt(@)]
    /\ last' = Last("increment_buffered_attempt", "none", "none", 0)
    /\ UNCHANGED <<clock, origin_vars, backups, session_files, origin_name,
                   master_state, instance_id, session_id,
                   session_episode_count, validation_mode, faults>>

\* Seeded fault for C32: the dialogue asks without consulting the limit
ask_buffered_clarification_unasked(i) ==
    /\ instance_id # None
    /\ i \in DOMAIN buffers[instance_id].semantic.items
    /\ buffers' = [buffers EXCEPT ![instance_id].semantic.items[i] =
                      increment_clarification_attempt(@)]
    /\ last' = Last("ask_buffered_clarification", "none", "none", 1)
    /\ UNCHANGED <<clock, origin_vars, backups, session_files, origin_name,
                   master_state, instance_id, session_id,
                   session_episode_count, validation_mode, faults>>

\* One round of a clarification dialogue on buffered entry i: the caller asks
\* should_ask_clarification and, when it answers true, puts the question and
\* increments the attempt counter; ret is 1 when the question was put
ask_buffered_clarification(i) ==
    /\ instance_id # None
    /\ i \in DOMAIN buffers[instance_id].semantic.items
    /\ LET entry == buffers[instance_id].semantic.items[i]
           should_ask == should_ask_clarification(entry)
       IN /\ buffers' = [buffers EXCEPT ![instance_id].semantic.items[i] =
                            IF should_ask
                            THEN increment_clarification_attempt(entry)
                            ELSE entry]
          /\ last' = Last("ask_buffered_clarification", "none", "none",
                          IF should_ask THEN 1 ELSE 0)
    /\ UNCHANGED <<clock, origin_vars, backups, session_files, origin_name,
                   master_state, instance_id, session_id,
                   session_episode_count, validation_mode, faults>>

(***************************************************************************)
(* 4. Session end                                                          *)
(***************************************************************************)
\* Seeded fault for C24: the counter is reset before the record is built
end_session_resetting_first ==
    IF session_id = None
    THEN Raises("end_session", "RuntimeError")
    ELSE LET session_memory ==
                 [session_id |-> session_id,
                  instance_id |-> instance_id,
                  episode_count |-> 0,
                  episodes |-> buffers[instance_id].episodic.items,
                  semantic_updates |-> buffers[instance_id].semantic.items]
         IN /\ session_files' =
                  [f \in DOMAIN session_files \cup {session_id} |->
                      IF f = session_id THEN session_memory ELSE session_files[f]]
            /\ session_id' = None
            /\ session_episode_count' = 0
            /\ last' = Last("end_session", "none", "none", session_episode_count)
            /\ UNCHANGED <<clock, origin_vars, backups, buffers, origin_name,
                           master_state, instance_id, validation_mode, faults>>

end_session ==
    IF session_id = None
    THEN Raises("end_session", "RuntimeError")
    ELSE LET session_memory ==
                 [session_id |-> session_id,
                  instance_id |-> instance_id,
                  episode_count |-> session_episode_count,
                  episodes |-> buffers[instance_id].episodic.items,
                  semantic_updates |-> buffers[instance_id].semantic.items]
         IN /\ session_files' =
                  [f \in DOMAIN session_files \cup {session_id} |->
                      IF f = session_id THEN session_memory ELSE session_files[f]]
            /\ session_id' = None
            /\ session_episode_count' = 0
            /\ last' = Last("end_session", "none", "none", session_episode_count)
            /\ UNCHANGED <<clock, origin_vars, backups, buffers, origin_name,
                           master_state, instance_id, validation_mode, faults>>

(***************************************************************************)
(* 5. Consolidation                                                        *)
(***************************************************************************)
consolidate_to_instance ==
    IF instance_id = None
    THEN Raises("consolidate_to_instance", "RuntimeError")
    ELSE /\ buffers' = [buffers EXCEPT ![instance_id].metadata.status =
                           "consolidated_instance"]
         /\ last' = Last("consolidate_to_instance", "none", "none", 0)
         /\ UNCHANGED <<clock, origin_vars, backups, session_files, origin_name,
                        master_state, instance_id, session_id,
                        session_episode_count, validation_mode, faults>>

\* Environment faults: an exception raised by the file system while the named
\* step of consolidate_to_origin runs
BackupFaults == {"backup_copy", "backup_metadata"}
MergeFaults == {"merge_episodic", "merge_semantic", "merge_sensory"}
Faults == {"none", "verify"} \cup BackupFaults \cup MergeFaults

\* f"Origin_v{version}_{timestamp}"
BackupName == <<_get_current_version, clock>>

\* ensure_dir(backup_root): the tree already there under that name, or an
\* empty one
EmptyBackup ==
    [dirs |-> <<>>,
     metadata |-> [exists |-> FALSE, prev_version |-> 0, instance_id |-> None]]

BackupRoot == IF BackupName \in DOMAIN backups THEN backups[BackupName] ELSE EmptyBackup

Put(f, k, v) == [x \in DOMAIN f \cup {k} |-> IF x = k THEN v ELSE f[x]]

\* Seeded fault for C1: the loop copies nothing and reports success
CopyTrees_copying_nothing(i, tree, fault) == [ok |-> TRUE, tree |-> tree]

\* The copytree loop of _create_origin_backup from directory i on: a source
\* directory that does not exist is skipped; copytree raises when its
\* destination exists; the injected copy fault strikes the first directory
\* that is copied and leaves it partial
RECURSIVE CopyTrees(_, _, _)
CopyTrees(i, tree, fault) ==
    IF i > Len(dirs_to_backup) THEN [ok |-> TRUE, tree |-> tree]
    ELSE LET d == dirs_to_backup[i]
         IN IF d \notin origin_dirs THEN CopyTrees(i + 1, tree, fault)
            ELSE IF d \in DOMAIN tree.dirs THEN [ok |-> FALSE, tree |-> tree]
            ELSE IF fault = "backup_copy"
            THEN [ok |-> FALSE,
                  tree |-> [tree EXCEPT !.dirs = Put(@, d, PartialCopy)]]
            ELSE CopyTrees(i + 1,
                           [tree EXCEPT !.dirs = Put(@, d, OriginDir(d))],
                           fault)

\* Seeded fault for C2: a failed backup is reported as made
_create_origin_backup_hiding_failure(fault) ==
    [ok |-> TRUE, tree |-> CopyTrees(1, BackupRoot, fault).tree]

\* MSP._create_origin_backup: ok = it returned, ~ok = it raised MSPBackupError
_create_origin_backup(fault) ==
    LET copied == CopyTrees(1, BackupRoot, fault)
    IN IF ~copied.ok \/ fault = "backup_metadata" THEN [ok |-> FALSE, tree |-> copied.tree]
       ELSE [ok |-> TRUE,
             tree |-> [copied.tree EXCEPT !.metadata =
                          [exists |-> TRUE,
                           prev_version |-> _get_current_version,
                           instance_id |-> instance_id]]]

\* Seeded fault for C5: buffered episodes go in front of the existing ones
_merge_episodic_in_front(buffer_data) == buffer_data.items \o episodic_master.items

\* MSP._merge_episodic: the episode list saved to the master file
_merge_episodic(buffer_data) == episodic_master.items \o buffer_data.items

\* concept_map[concept] = entry, for a dict kept as the list of its values in
\* insertion order
RECURSIVE MapPut(_, _, _)
MapPut(concept_map, entry, i) ==
    IF i > Len(concept_map) THEN Append(concept_map, entry)
    ELSE IF concept_map[i].concept = entry.concept
    THEN [concept_map EXCEPT ![i] = entry]
    ELSE MapPut(concept_map, entry, i + 1)

MapHas(concept_map, concept) == \E i \in DOMAIN concept_map : concept_map[i].concept = concept

MapGet(concept_map, concept) ==
    concept_map[CHOOSE i \in DOMAIN concept_map : concept_map[i].concept = concept]

\* The first loop of the dedup: every master entry with a non-empty concept
RECURSIVE MasterMap(_, _, _)
MasterMap(entries, i, concept_map) ==
    IF i > Len(entries) THEN concept_map
    ELSE IF entries[i].concept # <<>>
    THEN MasterMap(entries, i + 1, MapPut(concept_map, entries[i], 1))
    ELSE MasterMap(entries, i + 1, concept_map)

\* Seeded fault for C11: new entries are appended without the dedup
MergeNew_without_dedup(new_entries, i, concept_map) == concept_map \o new_entries

\* The second loop: a new entry replaces the one held for its concept only
\* with a higher confidence
RECURSIVE MergeNew(_, _, _)
MergeNew(new_entries, i, concept_map) ==
    IF i > Len(new_entries) THEN concept_map
    ELSE LET entry == new_entries[i]
         IN IF entry.concept = <<>> THEN MergeNew(new_entries, i + 1, concept_map)
            ELSE IF MapHas(concept_map, entry.concept)
            THEN IF entry.confidence > MapGet(concept_map, entry.concept).confidence
                 THEN MergeNew(new_entries, i + 1, MapPut(concept_map, entry, 1))
                 ELSE MergeNew(new_entries, i + 1, concept_map)
            ELSE MergeNew(new_entries, i + 1, MapPut(concept_map, entry, 1))

\* MSP._merge_semantic: the entry list saved to the master file
_merge_semantic(buffer_data) ==
    LET new_entries == SelectSeq(buffer_data.items, validate_for_consolidation)
    IN MergeNew(new_entries, 1, MasterMap(semantic_master.items, 1, <<>>))

\* SensoryValidator.validate(entry).valid, for the descriptive records a
\* sensory buffer holds
SensoryValid(entry) == ~entry.interpretive

\* MSP._merge_sensory: the entry list saved to the master file
_merge_sensory(buffer_data) ==
    sensory_master.items \o SelectSeq(buffer_data.items, SensoryValid)

\* MSP._verify_origin_integrity raises for a master file that loads as an
\* empty document
_verify_origin_integrity(masters) == \A m \in masters : m.exists

\* Seeded fault for C9: the no-buffer check is skipped
buffer_files_exist_unchecked(buffer) == TRUE

\* any(f.exists() for f in buffer_files.values())
buffer_files_exist(buffer) ==
    buffer.episodic.exists \/ buffer.semantic.exists \/ buffer.sensory.exists

\* MSP.delete_buffer: the remaining buffer directories
BuffersWithout(id) == [i \in DOMAIN buffers \ {id} |-> buffers[i]]

\* Seeded fault for C8: a failed merge or verification does not stop the call
Reaches_past_failure(fault, step) == fault \notin BackupFaults

\* How far consolidate_to_origin gets under a fault
Reaches(fault, step) ==
    CASE step = "merge_episodic" -> fault \notin BackupFaults
      [] step = "save_episodic" -> fault \notin BackupFaults \cup {"merge_episodic"}
      [] step = "save_semantic" ->
             fault \notin BackupFaults \cup {"merge_episodic", "merge_semantic"}
      [] step = "save_sensory" -> fault \notin BackupFaults \cup MergeFaults
      [] step = "verified" -> fault = "none"

consolidate_to_origin(fault) ==
    IF instance_id = None
    THEN Raises("consolidate_to_origin", "RuntimeError")
    ELSE LET backup == _create_origin_backup(fault)
             buffer == buffers[instance_id]
             found == buffer_files_exist(buffer)
             episodic_saved == File(_merge_episodic(buffer.episodic))
             semantic_saved == File(_merge_semantic(buffer.semantic))
             sensory_saved == File(_merge_sensory(buffer.sensory))
             verified == _verify_origin_integrity(
                             {episodic_saved, semantic_saved, sensory_saved})
         IN /\ fault = "backup_copy" => origin_dirs # {}
            /\ fault \in MergeFaults \cup {"verify"} => backup.ok /\ found
            /\ faults' = IF fault = "none" THEN faults ELSE faults + 1
            /\ backups' = Put(backups, BackupName, backup.tree)
            /\ UNCHANGED <<clock, session_files, origin_name, master_state,
                           validation_mode, user_block>>
            /\ IF ~backup.ok
               THEN \* MSPBackupError, caught and re-raised by the except clause
                    /\ last' = Last("consolidate_to_origin", "MSPConsolidationError",
                                    "backup", 0)
                    /\ UNCHANGED <<origin_dirs, episodic_master, semantic_master,
                                   sensory_master, version_file, buffers,
                                   instance_id, session_id, session_episode_count>>
               ELSE IF ~found
               THEN /\ last' = Last("consolidate_to_origin", "none", "no_buffers",
                                    _get_current_version)
                    /\ UNCHANGED <<origin_dirs, episodic_master, semantic_master,
                                   sensory_master, version_file, buffers,
                                   instance_id, session_id, session_episode_count>>
               ELSE /\ episodic_master' = IF Reaches(fault, "save_episodic")
                                          THEN episodic_saved ELSE episodic_master
                    /\ semantic_master' = IF Reaches(fault, "save_semantic")
                                          THEN semantic_saved ELSE semantic_master
                    /\ sensory_master' = IF Reaches(fault, "save_sensory")
                                         THEN sensory_saved ELSE sensory_master
                    /\ origin_dirs' = origin_dirs
                           \cup (IF Reaches(fault, "save_episodic") THEN {EpisodicDir} ELSE {})
                           \cup (IF Reaches(fault, "save_semantic") THEN {SemanticDir} ELSE {})
                           \cup (IF Reaches(fault, "save_sensory") THEN {SensoryDir} ELSE {})
                    /\ IF Reaches(fault, "verified") /\ verified
                       THEN /\ version_file' = _increment_version
                            /\ buffers' = BuffersWithout(instance_id)
                            /\ instance_id' = None
                            /\ session_id' = None
                            /\ session_episode_count' = 0
                            /\ last' = Last("consolidate_to_origin", "none", "done",
                                            _increment_version.version)
                       ELSE /\ last' = Last("consolidate_to_origin",
                                            "MSPConsolidationError",
                                            IF fault = "none" THEN "verify" ELSE fault, 0)
                            /\ UNCHANGED <<version_file, buffers, instance_id,
                                           session_id, session_episode_count>>

delete_buffer ==
    IF instance_id = None
    THEN Raises("delete_buffer", "RuntimeError")
    ELSE /\ buffers' = BuffersWithout(instance_id)
         /\ instance_id' = None
         /\ session_id' = None
         /\ session_episode_count' = 0
         /\ last' = Last("delete_buffer", "none", "none", 0)
         /\ UNCHANGED <<clock, origin_vars, backups, session_files, origin_name,
                        master_state, validation_mode, faults>>

(***************************************************************************)
(* Specifications.  Each calls the orchestrator's operations in lifecycle  *)
(* order on valid proposals; the guards written in the next-state          *)
(* relations are the bounds of the model, not the program's.               *)
(***************************************************************************)
HasInstance == instance_id # None

HasSession == session_id # None

BufferedEpisodes == IF HasInstance THEN Len(buffers[instance_id].episodic.items) ELSE 0

BufferedEntries == IF HasInstance THEN Len(buffers[instance_id].semantic.items) ELSE 0

SessionCount == IF HasInstance THEN buffers[instance_id].metadata.session_count ELSE 0

\* Signals the entries of the active buffer have received so far
RECURSIVE SignalsIn(_, _)
SignalsIn(entries, i) ==
    IF i > Len(entries) THEN 0
    ELSE SumOver(entries[i].signal_history, Signals) + SignalsIn(entries, i + 1)

SignalsSeen == IF HasInstance THEN SignalsIn(buffers[instance_id].semantic.items, 1) ELSE 0

\* The instance id create_instance(given) settles on
ChosenInstance(given) ==
    IF given = None THEN AutoInstanceId(Cardinality(DOMAIN buffers) + 1) ELSE given

CanInject(fault) == fault # "none" => faults < MaxFaults

CanBump == _get_current_version < MaxVersion

ValidProposals == {[episode_id |-> None, sections |-> TRUE, RI |-> FALSE]}

Concepts == {<<"t", "e", "a">>}

Definitions == {"likes tea"}

\* Signal batches a caller hands to update_entry: an affirmation confirms and
\* resolves an entry (0.80); the others then bring it to 0.70, 0.71 and 0.69,
\* which the code's floating-point sums reach exactly as well
Batches ==
    { <<"user_affirmation">>,
      <<"inconsistency_over_time", "inconsistency_over_time">>,
      <<"inconsistency_over_time", "system_noise_detected">>,
      <<"consistent_recall", "inconsistency_over_time", "inconsistency_over_time",
        "inconsistency_over_time">> }

\* Consolidation: one instance gathers episodes and is consolidated, with
\* environment faults and with the wall clock advancing between calls
Next ==
    \/ clock < MaxTime /\ Tick
    \/ origin_name = None /\ load_origin
    \/ \E given \in {None} :
           /\ origin_name # None
           /\ ~HasSession
           /\ ChosenInstance(given) \in InstanceIds
           /\ create_instance(given)
    \/ /\ HasInstance /\ ~HasSession
       /\ AutoSessionId(SessionCount + 1) \in SessionIds
       /\ start_session(None)
    \/ \E p \in ValidProposals, ri \in {"L3"}, u \in Uuids :
           /\ HasSession
           /\ BufferedEpisodes < MaxBufferEpisodes
           /\ write_episode(p, ri, u)
    \/ HasSession /\ end_session
    \/ \E fault \in Faults :
           /\ CanInject(fault)
           /\ CanBump
           /\ consolidate_to_origin(fault)

Spec == Init /\ [][Next]_vars

\* Lifecycle: every operation of the orchestrator, without faults
NextLifecycle ==
    \/ origin_name = None /\ load_origin
    \/ \E given \in {None} :
           /\ origin_name # None
           /\ ~HasSession
           /\ ChosenInstance(given) \in InstanceIds
           /\ create_instance(given)
    \/ /\ HasInstance /\ ~HasSession
       /\ AutoSessionId(SessionCount + 1) \in SessionIds
       /\ start_session(None)
    \/ \E p \in ValidProposals, ri \in {"L3"}, u \in Uuids :
           /\ HasSession
           /\ BufferedEpisodes < MaxBufferEpisodes
           /\ write_episode(p, ri, u)
    \/ \E c \in Concepts, d \in Definitions, u \in Uuids :
           /\ HasSession
           /\ BufferedEntries < MaxBufferEntries
           /\ write_semantic(c, d, "ep_custom_1", <<>>, None, u)
    \/ HasSession /\ end_session
    \/ HasInstance /\ consolidate_to_instance
    \/ CanBump /\ consolidate_to_origin("none")
    \/ HasInstance /\ delete_buffer

SpecLifecycle == Init /\ [][NextLifecycle]_vars

\* Semantic memory: entries are proposed, their confidence is updated by
\* signal batches, and the buffer is consolidated
NextSem ==
    \/ origin_name = None /\ load_origin
    \/ \E given \in {None} :
           /\ origin_name # None
           /\ ~HasSession
           /\ ChosenInstance(given) \in InstanceIds
           /\ create_instance(given)
    \/ /\ HasInstance /\ ~HasSession
       /\ AutoSessionId(SessionCount + 1) \in SessionIds
       /\ start_session(None)
    \/ \E c \in Concepts, d \in Definitions, u \in Uuids :
           /\ HasSession
           /\ BufferedEntries < MaxBufferEntries
           /\ write_semantic(c, d, "ep_custom_1", <<>>, None, u)
    \/ \E i \in 1..MaxBufferEntries, b \in Batches :
           /\ SignalsSeen + Len(b) <= MaxSignals
           /\ update_buffered_entry(i, b)
    \/ \E fault \in {"none", "verify"} :
           /\ CanInject(fault)
           /\ CanBump
           /\ consolidate_to_origin(fault)

\* ... over an established Origin
InitSem ==
    /\ EstablishedBase
    /\ validation_mode = "strict"
    /\ InitMemory

SpecSem == InitSem /\ [][NextSem]_vars

\* Dedup: over an Origin that already holds a semantic entry, entries are
\* proposed in one session for the same concept or another, each is confirmed
\* and then weakened at most once, and the buffer is consolidated
DedupConcepts == {<<"t", "e", "a">>, <<"t", "1">>}

DedupUuids == <<"a1b2c3", "d4e5f6">>

DedupBatches ==
    { <<"user_affirmation">>,
      <<"inconsistency_over_time", "system_noise_detected">> }

\* An entry as an earlier consolidation left it in Origin: written in session
\* S00, confirmed, and for 0.71 weakened afterwards
OldEntry(confidence) ==
    [concept |-> <<"t", "e", "a">>,
     definition |-> "likes tea",
     epistemic_status |-> get_epistemic_status(confidence),
     confidence |-> confidence,
     resolution_state |-> "resolved",
     signal_history |->
         [s \in Signals |->
             IF s = "user_affirmation" THEN 1
             ELSE IF confidence = 710
                     /\ s \in {"inconsistency_over_time", "system_noise_detected"}
             THEN 1 ELSE 0],
     clarification_attempts |-> 0,
     stakes_level |-> "medium",
     max_clarification_attempts |-> MAX_CLARIFICATION_ATTEMPTS("medium"),
     derived_from |-> [episode_id |-> "ep_old"],
     conflicts_with |-> <<>>,
     semantic_id |-> <<"sem", "S00", "0f0f0f">>]

InitDedup ==
    /\ origin_dirs = Range(dirs_to_backup)
    /\ episodic_master = File(<<OldEpisode>>)
    /\ \E confidence \in {710, 800} : semantic_master = File(<<OldEntry(confidence)>>)
    /\ sensory_master = File(<<>>)
    /\ user_block = File(<<"user_profile">>)
    /\ version_file = [exists |-> TRUE, version |-> 1]
    /\ validation_mode = "strict"
    /\ InitMemory

BufferedIndexes == IF HasInstance THEN DOMAIN buffers[instance_id].semantic.items ELSE {}

NextDedup ==
    \/ origin_name = None /\ load_origin
    \/ \E given \in {None} :
           /\ origin_name # None
           /\ ~HasSession
           /\ ChosenInstance(given) \in InstanceIds
           /\ create_instance(given)
    \/ /\ HasInstance /\ ~HasSession
       /\ AutoSessionId(SessionCount + 1) \in SessionIds
       /\ start_session(None)
    \/ \E c \in DedupConcepts, d \in Definitions :
           /\ HasSession
           /\ BufferedEntries + 1 \in DOMAIN DedupUuids
           /\ write_semantic(c, d, "ep_custom_1", <<>>, None, DedupUuids[BufferedEntries + 1])
    \/ \E i \in BufferedIndexes, b \in DedupBatches :
           /\ buffers[instance_id].semantic.items[i].signal_history[b[1]] = 0
           /\ b[1] # "user_affirmation" =>
                  buffers[instance_id].semantic.items[i].resolution_state = "resolved"
           /\ update_buffered_entry(i, b)
    \/ CanBump /\ consolidate_to_origin("none")

SpecDedup == InitDedup /\ [][NextDedup]_vars

\* Capacity: sessions are filled to their capacity, ended, and started again
\* under an id the caller gives or the orchestrator generates; episodes are
\* proposed with and without a denylisted field
CapacityProposals ==
    { [episode_id |-> None, sections |-> TRUE, RI |-> FALSE],
      [episode_id |-> None, sections |-> TRUE, RI |-> TRUE] }

NextCapacity ==
    \/ origin_name = None /\ load_origin
    \/ \E given \in {None} :
           /\ origin_name # None
           /\ ~HasInstance
           /\ ChosenInstance(given) \in InstanceIds
           /\ create_instance(given)
    \/ \E given \in {None} \cup SessionIds :
           /\ HasInstance /\ ~HasSession
           /\ given = None => SessionCount = 0
           /\ start_session(given)
    \/ \E p \in CapacityProposals, ri \in {"L3"}, u \in Uuids :
           /\ HasSession
           /\ BufferedEpisodes < MaxEpisodesPerSession + MaxBufferEpisodes
           /\ write_episode(p, ri, u)
    \/ HasSession /\ session_full /\ end_session

SpecCapacity == InitSem /\ [][NextCapacity]_vars

\* Gate: an orchestrator constructed in any validation mode is handed
\* well-formed and malformed proposals at every RI level
PlainEpisode == [episode_id |-> None, sections |-> TRUE, RI |-> FALSE]

ForgedMetadata ==
    [written_by |-> "LLM", instance_id |-> "FORGED", session_id |-> "S99",
     ri_level |-> "L9"]

WithKey(episode, key, value) ==
    [k \in DOMAIN episode \cup {key} |-> IF k = key THEN value ELSE episode[k]]

GateProposals ==
    { PlainEpisode,
      [PlainEpisode EXCEPT !.RI = TRUE],
      [PlainEpisode EXCEPT !.sections = FALSE],
      WithKey(PlainEpisode, "episode_type", "bogus"),
      WithKey([PlainEpisode EXCEPT !.RI = TRUE], "episode_type", "bogus"),
      WithKey(PlainEpisode, "turns", <<GoodTurn, GoodTurn>>),
      WithKey(PlainEpisode, "turns", <<AnonymousTurn>>),
      WithKey(PlainEpisode, "turns", <<StrTurn>>),
      WithKey(PlainEpisode, "turns", <<IntTurn>>),
      WithKey(PlainEpisode, "turns", <<NumberedTurn>>),
      WithKey([PlainEpisode EXCEPT !.RI = TRUE], "turns", <<IntTurn>>),
      WithKey(PlainEpisode, "emotive_snapshot", [type |-> "dict"]),
      WithKey(PlainEpisode, "emotive_snapshot", [type |-> "str"]),
      WithKey([PlainEpisode EXCEPT !.episode_id = <<"ep", "forged">>],
              "msp_metadata", ForgedMetadata) }

InitGate ==
    /\ EstablishedBase
    /\ validation_mode \in ValidationModes
    /\ InitMemory

NextGate ==
    \/ origin_name = None /\ load_origin
    \/ \E given \in {None} :
           /\ origin_name # None
           /\ ~HasInstance
           /\ ChosenInstance(given) \in InstanceIds
           /\ create_instance(given)
    \/ \E given \in {None} :
           /\ HasInstance /\ ~HasSession
           /\ SessionCount = 0
           /\ start_session(given)
    \/ \E p \in GateProposals, ri \in RiLevels, u \in Uuids :
           /\ HasSession
           /\ BufferedEpisodes < MaxBufferEpisodes
           /\ write_episode(p, ri, u)

SpecGate == InitGate /\ [][NextGate]_vars

\* Forge: in any validation mode, semantic entries are proposed with every
\* combination of well-formed and malformed arguments
ForgeConcepts == {<<"t", "e", "a">>, <<"t", "_">>, <<"1">>}

ForgeDefinitions == {"likes tea", "allergy to peanuts"}

ForgeEpisodeIds == {"ep_custom_1", "confidence"}

ForgeTurnIds == {<<>>, <<"t1">>}

ForgeStakes == {None, "low"}

NextForge ==
    \/ origin_name = None /\ load_origin
    \/ \E given \in {None} :
           /\ origin_name # None
           /\ ~HasInstance
           /\ ChosenInstance(given) \in InstanceIds
           /\ create_instance(given)
    \/ \E given \in {None} :
           /\ HasInstance /\ ~HasSession
           /\ SessionCount = 0
           /\ start_session(given)
    \/ \E c \in ForgeConcepts, d \in ForgeDefinitions, e \in ForgeEpisodeIds,
          t \in ForgeTurnIds, s \in ForgeStakes, u \in Uuids :
           /\ HasSession
           /\ BufferedEntries < MaxBufferEntries
           /\ write_semantic(c, d, e, t, s, u)

SpecForge == InitGate /\ [][NextForge]_vars

\* Instances: two instance ids, given by the caller or generated, over
\* sessions, instance snapshots and buffer deletion
TwoInstanceIds == {"THA_01_S01", "THA_02_S01"}

\* Episodes in all instance buffers together
AllBufferedEpisodes ==
    SumOver([id \in DOMAIN buffers |-> Len(buffers[id].episodic.items)],
            DOMAIN buffers)

NextInstances ==
    \/ origin_name = None /\ load_origin
    \/ \E given \in {None} \cup TwoInstanceIds :
           /\ origin_name # None
           /\ ~HasSession
           /\ ChosenInstance(given) \in TwoInstanceIds
           /\ create_instance(given)
    \/ /\ HasInstance /\ ~HasSession
       /\ AutoSessionId(SessionCount + 1) \in SessionIds
       /\ start_session(None)
    \/ \E p \in ValidProposals, ri \in {"L3"}, u \in Uuids :
           /\ HasSession
           /\ AllBufferedEpisodes < MaxBufferEpisodes
           /\ write_episode(p, ri, u)
    \/ HasSession /\ end_session
    \/ HasInstance /\ consolidate_to_instance
    \/ HasInstance /\ delete_buffer

SpecInstances == InitSem /\ [][NextInstances]_vars

\* Order: every operation is called in and out of lifecycle order; episodes
\* are proposed with and without a denylisted field
NextOrder ==
    \/ origin_name = None /\ load_origin
    \/ \E given \in {None} :
           /\ origin_name # None =>
                  ~HasSession /\ ChosenInstance(given) \in InstanceIds
           /\ create_instance(given)
    \/ /\ HasInstance =>
              ~HasSession /\ AutoSessionId(SessionCount + 1) \in SessionIds
       /\ start_session(None)
    \/ \E p \in CapacityProposals, ri \in {"L3"}, u \in Uuids :
           /\ HasSession => BufferedEpisodes < MaxBufferEpisodes
           /\ write_episode(p, ri, u)
    \/ \E c \in Concepts, d \in Definitions, u \in Uuids :
           /\ HasSession => BufferedEntries < MaxBufferEntries
           /\ write_semantic(c, d, "ep_custom_1", <<>>, None, u)
    \/ end_session
    \/ consolidate_to_instance
    \/ (HasInstance => CanBump) /\ consolidate_to_origin("none")
    \/ delete_buffer

SpecOrder == InitSem /\ [][NextOrder]_vars

\* Updater: one buffered entry receives signals one at a time and in batches
\* that repeat a capped signal or mix an affirmation with a contradiction, is
\* asked about, and has its clarification loop exited
UpdaterBatches ==
    { <<s>> : s \in Signals }
    \cup { <<"repeated_occurrence", "repeated_occurrence",
            "repeated_occurrence", "repeated_occurrence">>,
           <<"user_affirmation", "user_affirmation">>,
           <<"user_affirmation", "contradiction_by_user">>,
           <<"contradiction_by_user", "user_affirmation">> }

MaxAttempts == 1
MaxUpdaterSignals == 4

NextUpdater ==
    \/ origin_name = None /\ load_origin
    \/ \E given \in {None} :
           /\ origin_name # None
           /\ ~HasInstance
           /\ ChosenInstance(given) \in InstanceIds
           /\ create_instance(given)
    \/ /\ HasInstance /\ ~HasSession
       /\ SessionCount = 0
       /\ start_session(None)
    \/ \E c \in Concepts, d \in Definitions, u \in Uuids :
           /\ HasSession
           /\ BufferedEntries = 0
           /\ write_semantic(c, d, "ep_custom_1", <<>>, None, u)
    \/ \E i \in BufferedIndexes, b \in UpdaterBatches :
           /\ SignalsSeen + Len(b) <= MaxUpdaterSignals
           /\ update_buffered_entry(i, b)
    \/ \E i \in BufferedIndexes : force_exit_buffered_entry(i)
    \/ \E i \in BufferedIndexes :
           /\ buffers[instance_id].semantic.items[i].clarification_attempts
                  < MaxAttempts
           /\ increment_buffered_attempt(i)

SpecUpdater == InitSem /\ [][NextUpdater]_vars

\* Clarify: entries of every stakes level go through clarification dialogues
\* that consult should_ask_clarification before each question, are affirmed,
\* and have their loop exited
StakesLevels == {"low", "medium", "high"}

ClarifyBatches == { <<"user_affirmation">>, <<"implicit_user_signal">> }

MaxClarifySignals == 2

NextClarify ==
    \/ origin_name = None /\ load_origin
    \/ \E given \in {None} :
           /\ origin_name # None
           /\ ~HasInstance
           /\ ChosenInstance(given) \in InstanceIds
           /\ create_instance(given)
    \/ /\ HasInstance /\ ~HasSession
       /\ SessionCount = 0
       /\ start_session(None)
    \/ \E c \in Concepts, d \in Definitions, s \in StakesLevels, u \in Uuids :
           /\ HasSession
           /\ BufferedEntries < MaxBufferEntries
           /\ write_semantic(c, d, "ep_custom_1", <<>>, s, u)
    \/ \E i \in BufferedIndexes : ask_buffered_clarification(i)
    \/ \E i \in BufferedIndexes, b \in ClarifyBatches :
           /\ SignalsSeen + Len(b) <= MaxClarifySignals
           /\ update_buffered_entry(i, b)
    \/ \E i \in BufferedIndexes : force_exit_buffered_entry(i)

SpecClarify == InitSem /\ [][NextClarify]_vars

\* Attempts: as Clarify, and the caller may also count attempts without
\* consulting should_ask_clarification, past every limit
MaxClarifications == 5

NextAttempts ==
    \/ NextClarify
    \/ \E i \in BufferedIndexes :
           /\ buffers[instance_id].semantic.items[i].clarification_attempts
                  < MaxClarifications
           /\ increment_buffered_attempt(i)

SpecAttempts == InitSem /\ [][NextAttempts]_vars

\* Scan: in strict mode, episodes are proposed that carry a nested value of
\* objects, lists and numbers, with a denylisted or a harmless key at every
\* level
MaxDepth == 3

ScanKeyNames == {"a", "RI"}

RECURSIVE JsonValues(_)
JsonValues(depth) ==
    IF depth = 0 THEN {JNum}
    ELSE LET below == JsonValues(depth - 1)
         IN below
            \cup { JDict(<<Pair(k, v)>>) : k \in ScanKeyNames, v \in below }
            \cup { JList(<<v>>) : v \in below }
            \cup { JList(<<JNum, v>>) : v \in below \ {JNum} }

ScanProposals ==
    { [episode_id |-> None, sections |-> TRUE, RI |-> FALSE, context |-> v] :
          v \in JsonValues(MaxDepth) }

MaxScanEpisodes == 1

NextScan ==
    \/ origin_name = None /\ load_origin
    \/ \E given \in {None} :
           /\ origin_name # None
           /\ ~HasInstance
           /\ ChosenInstance(given) \in InstanceIds
           /\ create_instance(given)
    \/ /\ HasInstance /\ ~HasSession
       /\ SessionCount = 0
       /\ start_session(None)
    \/ \E p \in ScanProposals, u \in Uuids :
           /\ HasSession
           /\ BufferedEpisodes < MaxScanEpisodes
           /\ write_episode(p, "L3", u)
    \/ HasSession /\ end_session
    \/ HasInstance /\ ~HasSession /\ consolidate_to_instance

SpecScan == InitSem /\ [][NextScan]_vars

\* Snapshot: in strict mode, at every RI level, episodes are proposed whose
\* emotive_snapshot has no indexed_state, an empty one, a partial one or a
\* complete one
Snapshots ==
    { [type |-> "dict"] }
    \cup { [type |-> "dict", indexed_state |-> parts] :
               parts \in SUBSET {"eva_matrix", "qualia", "reflex"} }

SnapshotProposals ==
    { WithKey(PlainEpisode, "emotive_snapshot", s) : s \in Snapshots }

AllRiLevels == RiLevels \cup {"L3+"}

NextSnapshot ==
    \/ origin_name = None /\ load_origin
    \/ \E given \in {None} :
           /\ origin_name # None
           /\ ~HasInstance
           /\ ChosenInstance(given) \in InstanceIds
           /\ create_instance(given)
    \/ /\ HasInstance /\ ~HasSession
       /\ SessionCount = 0
       /\ start_session(None)
    \/ \E p \in SnapshotProposals, ri \in AllRiLevels, u \in Uuids :
           /\ HasSession
           /\ BufferedEpisodes < MaxBufferEpisodes
           /\ write_episode(p, ri, u)

SpecSnapshot == InitSem /\ [][NextSnapshot]_vars

\* Filter: while the clock advances, episodes with and without a timestamp,
\* a summary and an emotive_snapshot are written at every RI level
FilterProposals ==
    { PlainEpisode,
      WithKey(PlainEpisode, "timestamp", 0),
      WithKey(PlainEpisode, "summary", "tea"),
      WithKey(WithKey(PlainEpisode, "timestamp", 0), "emotive_snapshot",
              [type |-> "dict", indexed_state |-> {"eva_matrix", "qualia", "reflex"}]) }

NextFilter ==
    \/ clock < MaxTime /\ Tick
    \/ origin_name = None /\ load_origin
    \/ \E given \in {None} :
           /\ origin_name # None
           /\ ~HasInstance
           /\ ChosenInstance(given) \in InstanceIds
           /\ create_instance(given)
    \/ /\ HasInstance /\ ~HasSession
       /\ SessionCount = 0
       /\ start_session(None)
    \/ \E p \in FilterProposals, ri \in AllRiLevels, u \in Uuids :
           /\ HasSession
           /\ BufferedEpisodes < MaxBufferEpisodes
           /\ write_episode(p, ri, u)

SpecFilter == InitSem /\ [][NextFilter]_vars

\* Sessions: one instance runs two sessions in a row, with or without
\* snapshotting or deleting its buffer between them
TwoSessionIds == {"S01", "S02"}

NextSessions ==
    \/ origin_name = None /\ load_origin
    \/ \E given \in {None} :
           /\ origin_name # None
           /\ ~HasInstance
           /\ ChosenInstance(given) \in InstanceIds
           /\ create_instance(given)
    \/ /\ HasInstance /\ ~HasSession
       /\ AutoSessionId(SessionCount + 1) \in TwoSessionIds
       /\ start_session(None)
    \/ \E p \in ValidProposals, u \in Uuids :
           /\ HasSession
           /\ BufferedEpisodes < MaxBufferEpisodes
           /\ write_episode(p, "L3", u)
    \/ HasSession /\ end_session
    \/ HasInstance /\ ~HasSession /\ consolidate_to_instance
    \/ HasInstance /\ ~HasSession /\ delete_buffer

SpecSessions == InitSem /\ [][NextSessions]_vars

\* Identifiers: episodes are proposed with and without an episode_id of the
\* caller's, at every RI level, and the buffer is consolidated
SuppliedEpisodeIds == {"ep_custom_1"}

IdProposals ==
    {PlainEpisode} \cup {WithKey(PlainEpisode, "episode_id", id) : id \in SuppliedEpisodeIds}

NextIds ==
    \/ origin_name = None /\ load_origin
    \/ \E given \in {None} :
           /\ origin_name # None
           /\ ~HasInstance
           /\ ChosenInstance(given) \in InstanceIds
           /\ create_instance(given)
    \/ /\ HasInstance /\ ~HasSession
       /\ AutoSessionId(SessionCount + 1) \in SessionIds
       /\ start_session(None)
    \/ \E p \in IdProposals, ri \in RiLevels, u \in Uuids :
           /\ HasSession
           /\ BufferedEpisodes < MaxBufferEpisodes
           /\ write_episode(p, ri, u)
    \/ HasSession /\ end_session
    \/ CanBump /\ consolidate_to_origin("none")

SpecIds == InitSem /\ [][NextIds]_vars

\* Scope: the caller may create or re-create an instance at any time, also
\* while a session is active
NextScope ==
    \/ origin_name = None /\ load_origin
    \/ \E given \in {None} \cup TwoInstanceIds :
           /\ origin_name # None
           /\ ChosenInstance(given) \in TwoInstanceIds
           /\ create_instance(given)
    \/ /\ HasInstance /\ ~HasSession
       /\ AutoSessionId(SessionCount + 1) \in SessionIds
       /\ start_session(None)
    \/ \E p \in ValidProposals, u \in Uuids :
           /\ HasSession
           /\ AllBufferedEpisodes < MaxBufferEpisodes
           /\ write_episode(p, "L3", u)
    \/ \E c \in Concepts, d \in Definitions, u \in Uuids :
           /\ HasSession
           /\ BufferedEntries < MaxBufferEntries
           /\ write_semantic(c, d, "ep_custom_1", <<>>, None, u)
    \/ HasSession /\ end_session

SpecScope == InitSem /\ [][NextScope]_vars

\* Orchestrator: over an Origin that already holds a semantic entry, only
\* the operations of MSP itself are called; nothing updates a buffered entry
NextOrchestrator ==
    \/ origin_name = None /\ load_origin
    \/ \E given \in {None} :
           /\ origin_name # None
           /\ ~HasSession
           /\ ChosenInstance(given) \in InstanceIds
           /\ create_instance(given)
    \/ /\ HasInstance /\ ~HasSession
       /\ AutoSessionId(SessionCount + 1) \in SessionIds
       /\ start_session(None)
    \/ \E p \in ValidProposals, u \in Uuids :
           /\ HasSession
           /\ BufferedEpisodes < MaxBufferEntries
           /\ write_episode(p, "L3", u)
    \/ \E c \in DedupConcepts, d \in ForgeDefinitions, u \in Uuids :
           /\ HasSession
           /\ BufferedEntries < MaxBufferEntries
           /\ write_semantic(c, d, "ep_custom_1", <<>>, None, u)
    \/ HasSession /\ end_session
    \/ CanBump /\ consolidate_to_origin("none")
    \/ HasInstance /\ ~HasSession /\ delete_buffer

SpecOrchestrator == InitDedup /\ [][NextOrchestrator]_vars

(***************************************************************************)
(* Properties                                                              *)
(***************************************************************************)
\* A step of consolidate_to_origin by a caller with an active instance
ConsolidateStep == \E fault \in Faults : consolidate_to_origin(fault)

OriginMemory == <<episodic_master, semantic_master, sensory_master>>

\* Origin's memory directories as a backup taken now would hold them
OriginSnapshot == [d \in origin_dirs |-> OriginDir(d)]

\* C1: whenever a call of consolidate_to_origin changes one of Origin's memory
\* files, the backup directory named in that call exists afterwards, holds
\* Origin's memory directories as they were before the merge, and its metadata
\* records the version before the merge and the consolidating instance.
C1_BackupBeforeMutation ==
    [][(ConsolidateStep /\ OriginMemory' # OriginMemory) =>
          /\ BackupName \in DOMAIN backups'
          /\ backups'[BackupName].dirs = OriginSnapshot
          /\ backups'[BackupName].metadata =
                 [exists |-> TRUE, prev_version |-> _get_current_version,
                  instance_id |-> instance_id]]_vars

\* C1 witness: a consolidation has appended to an established episodic master
\* and a backup holds the master as it was
C1_Witness ==
    /\ last.op = "consolidate_to_origin"
    /\ last.failed_at = "done"
    /\ Len(episodic_master.items) >= 2
    /\ \E b \in DOMAIN backups :
           /\ EpisodicDir \in DOMAIN backups[b].dirs
           /\ backups[b].dirs[EpisodicDir] = File(<<OldEpisode>>)
           /\ backups[b].metadata.prev_version = last.ret - 1

\* Step 1 of consolidate_to_origin(fault) fails: a copy or the metadata write raises
BackupFails(fault) == ~CopyTrees(1, BackupRoot, fault).ok \/ fault = "backup_metadata"

\* C2: if the backup of step 1 fails, the call stops before any mutation:
\* Origin's episodic, semantic and sensory memory, the version counter and the
\* instance buffer (and the active instance and session) are unchanged.
C2_BackupFailureStopsConsolidation ==
    [][\A fault \in Faults :
          (HasInstance /\ BackupFails(fault) /\ consolidate_to_origin(fault)) =>
              UNCHANGED <<origin_vars, buffers, instance_id, session_id>>]_vars

\* C2 witness: a consolidation of a buffer holding episodes stopped at the
\* backup, and Origin is as it was initially
C2_Witness ==
    /\ last.op = "consolidate_to_origin"
    /\ last.failed_at = "backup"
    /\ HasInstance
    /\ buffers[instance_id].episodic.items # <<>>
    /\ episodic_master = File(<<OldEpisode>>)
    /\ _get_current_version = 1

\* C3 (as the specification states it): a consolidation that failed in the
\* backup reports MSPBackupError to its caller.
C3_BackupErrorReported ==
    (last.op = "consolidate_to_origin" /\ last.failed_at = "backup")
        => last.error = "MSPBackupError"

\* C4: the version never decreases; it changes only in consolidate_to_origin,
\* by exactly one, in a call that found a buffer file and completed merge and
\* verification; every such call raises it, and every other step (no-op and
\* failed consolidations included) leaves it unchanged.
C4_VersionMonotone ==
    [][/\ _get_current_version' >= _get_current_version
       /\ _get_current_version' # _get_current_version =>
              /\ ConsolidateStep
              /\ HasInstance
              /\ buffers[instance_id].episodic.exists
                     \/ buffers[instance_id].semantic.exists
                     \/ buffers[instance_id].sensory.exists
              /\ last'.failed_at = "done"
              /\ _get_current_version' = _get_current_version + 1
       /\ (ConsolidateStep /\ last'.failed_at = "done") =>
              _get_current_version' = _get_current_version + 1]_vars

\* C4 witness: after a failed consolidation, a later one succeeded and the
\* version went from 1 to 2
C4_Witness ==
    /\ last.op = "consolidate_to_origin"
    /\ last.failed_at = "done"
    /\ faults = 1
    /\ version_file = [exists |-> TRUE, version |-> 2]

IsPrefix(s, t) == Len(s) <= Len(t) /\ SubSeq(t, 1, Len(s)) = s

\* C5: Origin's episode list is append-only (the list before a step is a prefix
\* of the list after it), and a completed consolidation appends the buffered
\* episodes verbatim, in buffer order, after the existing ones.
C5_EpisodesAppendOnly ==
    [][/\ IsPrefix(episodic_master.items, episodic_master'.items)
       /\ (ConsolidateStep /\ last'.failed_at = "done") =>
              episodic_master'.items =
                  episodic_master.items \o buffers[instance_id].episodic.items]_vars

\* C5 witness: two buffered episodes stand, in order, behind the old one
C5_Witness ==
    /\ last.op = "consolidate_to_origin"
    /\ last.failed_at = "done"
    /\ Len(episodic_master.items) = 3
    /\ episodic_master.items[1] = OldEpisode
    /\ episodic_master.items[2].episode_id = GeneratedEpisodeId("S01", 1, "a1b2c3")
    /\ episodic_master.items[3].episode_id = GeneratedEpisodeId("S01", 2, "a1b2c3")

\* C7 (as the specification states it): a consolidation that succeeds with a
\* buffer file present creates exactly one new backup directory, named for the
\* version before it, returns that version plus one, removes the buffer
\* directory and leaves no active instance or session.
C7_SuccessPostconditions ==
    [][(ConsolidateStep /\ last'.failed_at = "done") =>
          /\ \E b \in DOMAIN backups' :
                 /\ DOMAIN backups' \ DOMAIN backups = {b}
                 /\ b[1] = _get_current_version
          /\ last'.ret = _get_current_version + 1
          /\ instance_id \notin DOMAIN buffers'
          /\ instance_id' = None
          /\ session_id' = None]_vars

\* C8: if a merge or the verification fails, the caller gets the
\* consolidation error, the version is not incremented and the buffer is not
\* deleted (Origin may be left partially merged).
C8_MergeFailureKeepsBuffer ==
    [][\A fault \in MergeFaults \cup {"verify"} :
          (HasInstance /\ consolidate_to_origin(fault)) =>
              /\ last'.error = "MSPConsolidationError"
              /\ version_file' = version_file
              /\ buffers' = buffers
              /\ instance_id' = instance_id]_vars

\* C8 witness: on a fresh base the semantic merge failed after the episodic
\* master was written; the buffer and version 1 are still there
C8_Witness ==
    /\ last.op = "consolidate_to_origin"
    /\ last.failed_at = "merge_semantic"
    /\ last.error = "MSPConsolidationError"
    /\ episodic_master.exists /\ episodic_master.items # <<>>
    /\ ~semantic_master.exists
    /\ HasInstance /\ buffers[instance_id].episodic.items # <<>>
    /\ _get_current_version = 1

\* C9: with no buffer file present (and the backup made), consolidate_to_origin
\* returns the current version and leaves Origin, the version, the buffer
\* directory and the active instance in place.
C9_NoBufferIsNoOp ==
    [][\A fault \in Faults :
          (/\ HasInstance
           /\ ~BackupFails(fault)
           /\ ~buffers[instance_id].episodic.exists
           /\ ~buffers[instance_id].semantic.exists
           /\ ~buffers[instance_id].sensory.exists
           /\ consolidate_to_origin(fault)) =>
              /\ last'.error = "none"
              /\ last'.ret = _get_current_version
              /\ UNCHANGED <<origin_vars, buffers, instance_id, session_id>>]_vars

\* C9 witness: a consolidation of an empty buffer returned version 1; the
\* instance and its buffer directory are still there, and a backup was made
C9_Witness ==
    /\ last.op = "consolidate_to_origin"
    /\ last.failed_at = "no_buffers"
    /\ last.ret = 1
    /\ HasInstance /\ instance_id \in DOMAIN buffers
    /\ backups # <<>>

\* A step of one of the operations other than consolidate_to_origin
OtherOperationStep ==
    \/ load_origin
    \/ \E given \in {None} \cup InstanceIds : create_instance(given)
    \/ \E given \in {None} \cup SessionIds : start_session(given)
    \/ \E p \in Proposals, ri \in RiLevels, u \in Uuids : write_episode(p, ri, u)
    \/ \E c \in Concepts, d \in Definitions, u \in Uuids :
           write_semantic(c, d, "ep_custom_1", <<>>, None, u)
    \/ end_session
    \/ consolidate_to_instance
    \/ delete_buffer

\* C6: Origin is mutated by consolidate_to_origin alone: load_origin,
\* create_instance, start_session, write_episode, write_semantic, end_session,
\* consolidate_to_instance and delete_buffer leave Origin's episodic, semantic
\* and sensory memory, its user block and its version unchanged.
C6_OnlyConsolidationMutatesOrigin ==
    [][/\ OtherOperationStep => UNCHANGED origin_vars
       /\ origin_vars' # origin_vars => ConsolidateStep]_vars

\* C6 witness: a session wrote an episode and a semantic entry and ended, the
\* instance was consolidated and its buffer deleted, and Origin is as it was
C6_Witness ==
    /\ last.op = "delete_buffer"
    /\ "S01" \in DOMAIN session_files
    /\ session_files["S01"].episodes # <<>>
    /\ session_files["S01"].semantic_updates # <<>>
    /\ episodic_master = File(<<OldEpisode>>)
    /\ semantic_master = File(<<>>)
    /\ version_file = [exists |-> TRUE, version |-> 1]

\* C10: a buffered semantic entry is migrated only with a confidence strictly
\* above 0.70: every entry a consolidation adds to Origin's semantic master is
\* a buffered entry above 700 (so 0.69 and exactly 0.70 never arrive), and
\* every structurally valid buffered entry above 700 with a concept is in the
\* master afterwards, or an entry of its concept with at least its confidence.
C10_ThresholdIsStrict ==
    [][ConsolidateStep =>
          /\ \A e \in Range(semantic_master'.items) \ Range(semantic_master.items) :
                 /\ e \in Range(buffers[instance_id].semantic.items)
                 /\ e.confidence > 700
          /\ last'.failed_at \in {"done", "verify"} =>
                 \A e \in Range(buffers[instance_id].semantic.items) :
                    (/\ e.confidence > 700
                     /\ e.concept # <<>>
                     /\ SemanticValidate(e, <<>>).errors = <<>>) =>
                        \E o \in Range(semantic_master'.items) :
                           o.concept = e.concept /\ o.confidence >= e.confidence]_vars

\* C10 witness: the merge ran over a buffer whose entry stands at exactly 0.70
\* and Origin's semantic master holds no entry
C10_Witness ==
    /\ last.op = "consolidate_to_origin"
    /\ last.failed_at = "verify"
    /\ HasInstance
    /\ \E e \in Range(buffers[instance_id].semantic.items) : e.confidence = 700
    /\ semantic_master = File(<<>>)

\* The entries that stand for concept c in a consolidation, in the order the
\* merge meets them: Origin's, then the buffered ones it accepts
Candidates(c) ==
    SelectSeq(semantic_master.items
                  \o SelectSeq(buffers[instance_id].semantic.items,
                               LAMBDA e : /\ e.confidence > 700
                                          /\ SemanticValidate(e, <<>>).errors = <<>>),
              LAMBDA e : e.concept = c)

\* The first entry of highest confidence
Best(entries) ==
    entries[CHOOSE i \in DOMAIN entries :
                /\ \A j \in DOMAIN entries : entries[j].confidence <= entries[i].confidence
                /\ \A j \in 1..(i - 1) : entries[j].confidence < entries[i].confidence]

\* C11: after a consolidation whose semantic merge ran, Origin holds at most
\* one semantic entry per concept, and for each concept it is the entry of
\* highest confidence among the one Origin held and the accepted buffered ones,
\* the earlier one on equal confidence.
C11_DedupKeepsHighest ==
    [][(ConsolidateStep /\ last'.failed_at \in {"done", "verify"}) =>
          /\ \A i, j \in DOMAIN semantic_master'.items :
                 semantic_master'.items[i].concept = semantic_master'.items[j].concept
                     => i = j
          /\ \A c \in DedupConcepts :
                 IF Candidates(c) = <<>>
                 THEN \A o \in Range(semantic_master'.items) : o.concept # c
                 ELSE Best(Candidates(c)) \in Range(semantic_master'.items)]_vars

\* C11 witness: Origin held an entry at 0.71, the buffer offered the same
\* concept at 0.71 and at 0.80, and Origin now holds the 0.80 entry alone
C11_Witness ==
    /\ last.op = "consolidate_to_origin"
    /\ last.failed_at = "done"
    /\ Len(semantic_master.items) = 1
    /\ semantic_master.items[1].confidence = 800
    /\ semantic_master.items[1].semantic_id = <<"sem", "S01", "d4e5f6">>
    /\ \E b \in DOMAIN backups :
           /\ SemanticDir \in DOMAIN backups[b].dirs
           /\ Len(backups[b].dirs[SemanticDir].items) = 1
           /\ backups[b].dirs[SemanticDir].items[1].confidence = 710
           /\ backups[b].dirs[SemanticDir].items[1].concept
                  = semantic_master.items[1].concept

\* C12: within a session write_episode succeeds for a valid episode while
\* fewer than 30 have been written, so for the 1st through the 30th; every call
\* made once 30 have been written fails with the capacity error and leaves the
\* buffer and the episode counter unchanged; the counter never exceeds 30.
C12_SessionCapacity ==
    [][/\ session_episode_count' <= 30
       /\ \A p \in CapacityProposals, ri \in {"L3"}, u \in Uuids :
              (HasSession /\ write_episode(p, ri, u)) =>
                  IF session_episode_count >= 30
                  THEN /\ last'.error = "RuntimeError"
                       /\ buffers' = buffers
                       /\ session_episode_count' = session_episode_count
                  ELSE ~p.RI =>
                          /\ last'.error = "none"
                          /\ Len(buffers'[instance_id].episodic.items)
                                 = Len(buffers[instance_id].episodic.items) + 1
                          /\ session_episode_count' = session_episode_count + 1]_vars

\* C12 witness: the 31st call of a session has failed; the buffer holds the 30
\* episodes written before it
C12_Witness ==
    /\ last.op = "write_episode"
    /\ last.error = "RuntimeError"
    /\ HasSession
    /\ session_episode_count = 30
    /\ Len(buffers[instance_id].episodic.items) = 30

\* The episodes of a buffer that are stamped with session id sid
StampedWith(id, sid) ==
    {i \in DOMAIN buffers[id].episodic.items :
        buffers[id].episodic.items[i].msp_metadata.session_id = sid}

\* C13 (as the specification states it): in every instance buffer, at most 30
\* episodes are stamped with one session id.
C13_SessionBounded ==
    \A id \in DOMAIN buffers, sid \in {"S01", "S02"} :
        Cardinality(StampedWith(id, sid)) <= 30

\* The findings the validator has to report for a proposal at an RI level
\* when it returns: a missing required section (L3 and above), an
\* episode_type outside its enum, a denylisted key
Findings(p, ri) ==
    (IF ~p.sections /\ ri \notin {"L1", "L2"}
     THEN {<<"Missing required field", "sections">>} ELSE {})
    \cup (IF "episode_type" \in DOMAIN p /\ p.episode_type = "bogus"
          THEN {<<"Invalid enum value", "episode_header.episode_type">>} ELSE {})
    \cup (IF p.RI THEN {<<"Forbidden field found", "RI">>} ELSE {})

\* Proposals on which every phase of the validator runs to its end
Returning == {p \in GateProposals : DOMAIN p \cap {"turns", "emotive_snapshot"} = {}}

Written(p, ri) ==
    /\ last'.error = "none"
    /\ Len(buffers'[instance_id].episodic.items)
           = Len(buffers[instance_id].episodic.items) + 1
    /\ buffers'[instance_id].episodic.items[Len(buffers'[instance_id].episodic.items)].RI
           = (p.RI /\ ri = "L3")
    /\ session_episode_count' = session_episode_count + 1

\* C14: when the validator reports at least one error for an episode, strict
\* mode rejects the write with a validation error that carries every reported
\* error string and leaves buffer and episode counter unchanged; warn mode and
\* off mode write the episode.
C14_ModeGatesWrite ==
    [][\A p \in Returning, ri \in RiLevels, u \in Uuids :
          (HasSession /\ ~session_full /\ Findings(p, ri) # {}
                /\ write_episode(p, ri, u)) =>
              IF validation_mode = "strict"
              THEN /\ last'.error = "MSPValidationError"
                   /\ Range(last'.errors) = Findings(p, ri)
                   /\ buffers' = buffers
                   /\ session_episode_count' = session_episode_count
              ELSE Written(p, ri)]_vars

\* C14 witness: strict mode has rejected an episode with both of its errors
C14_Witness ==
    /\ validation_mode = "strict"
    /\ last.op = "write_episode"
    /\ last.error = "MSPValidationError"
    /\ Len(last.errors) = 2
    /\ BufferedEpisodes = 0

\* C14 witness, second case: warn mode holds an episode with a denylisted key
C14_WitnessWarn ==
    /\ validation_mode = "warn"
    /\ HasSession
    /\ \E i \in DOMAIN buffers[instance_id].episodic.items :
           buffers[instance_id].episodic.items[i].RI

\* A buffered episode with a Tier-1 violation: a denylisted key, an enum value
\* outside its enum, a turn that is not an object
Tier1Violation(episode) ==
    \/ episode.RI
    \/ "episode_type" \in DOMAIN episode /\ episode.episode_type \notin EPISODE_TYPES
    \/ /\ "turns" \in DOMAIN episode
       /\ \E i \in DOMAIN episode.turns : episode.turns[i].type # "dict"

\* C15 (as the specification states it): in strict mode no buffer holds an
\* episode with a Tier-1 violation.
C15_StrictBlocksTier1 ==
    validation_mode = "strict" =>
        \A id \in DOMAIN buffers :
            \A i \in DOMAIN buffers[id].episodic.items :
                ~Tier1Violation(buffers[id].episodic.items[i])

\* C16 (as the specification states it): whenever write_episode runs the
\* validator on a proposal, validate returns a ValidationResult.
C16_ValidatorNeverRaises ==
    [][\A p \in GateProposals, ri \in RiLevels, u \in Uuids :
          (HasSession /\ ~session_full /\ validation_mode # "off"
                /\ write_episode(p, ri, u)) =>
              ~ValidatorRaises(p)]_vars

C19_SessionRecordImmutable ==
    [][\A f \in DOMAIN session_files :
          /\ f \in DOMAIN session_files'
          /\ session_files'[f] = session_files[f]]_vars

\* C20 (as the specification states it): after a successful consolidation the
\* consolidated instance's metadata still exists, unchanged in its instance_id,
\* parent_version and session_count.
C20_InstanceMetadataPersists ==
    [][(ConsolidateStep /\ last'.failed_at = "done") =>
          /\ instance_id \in DOMAIN buffers'
          /\ buffers'[instance_id].metadata.instance_id = instance_id
          /\ buffers'[instance_id].metadata.parent_version
                 = buffers[instance_id].metadata.parent_version
          /\ buffers'[instance_id].metadata.session_count
                 = buffers[instance_id].metadata.session_count]_vars

\* C21 (as the specification states it): the parent_version that
\* create_instance records in the instance's metadata is Origin's persisted
\* version at that moment.
C21_ParentVersionIsCurrent ==
    [][\A given \in {None} \cup InstanceIds :
          (create_instance(given) /\ last'.error = "none") =>
              buffers'[instance_id'].metadata.parent_version
                  = _get_current_version]_vars

\* C22 (as the specification states it): right after create_instance returns,
\* for a given or a generated instance_id, the instance's buffer holds no
\* episode and no semantic entry, and its metadata has session_count 0 and
\* status active.
C22_NewInstanceIsEmpty ==
    [][\A given \in {None} \cup TwoInstanceIds :
          (create_instance(given) /\ last'.error = "none") =>
              /\ buffers'[instance_id'].episodic.items = <<>>
              /\ buffers'[instance_id'].semantic.items = <<>>
              /\ buffers'[instance_id'].metadata.session_count = 0
              /\ buffers'[instance_id'].metadata.status = "active"]_vars

\* C23 (as the specification states it): a step taken while an instance is
\* active leaves the buffer and the metadata of every other existing instance
\* unchanged.
C23_BuffersIsolated ==
    [][HasInstance =>
          \A other \in DOMAIN buffers \ {instance_id} :
              /\ other \in DOMAIN buffers'
              /\ buffers'[other] = buffers[other]]_vars

\* C24: end_session records as episode_count the number of episodes the session
\* wrote (the episodes of the buffer stamped with its id; rejected writes add
\* none), leaves no active session and a counter of 0, and leaves the instance
\* buffer as it was; until start_session is called again, write_episode fails
\* and writes nothing.
C24_EndSessionKeepsBuffer ==
    [][/\ (HasSession /\ end_session) =>
             /\ session_id \in DOMAIN session_files'
             /\ session_files'[session_id].episode_count
                   = Cardinality(StampedWith(instance_id, session_id))
             /\ session_id' = None
             /\ session_episode_count' = 0
             /\ buffers' = buffers
       /\ \A p \in CapacityProposals, ri \in {"L3"}, u \in Uuids :
             (~HasSession /\ write_episode(p, ri, u)) =>
                 /\ last'.error = "RuntimeError"
                 /\ buffers' = buffers
                 /\ session_id' = None]_vars

\* C24 witness: a session that wrote two episodes has ended, and a
\* write_episode after it has failed
C24_Witness ==
    /\ "S01" \in DOMAIN session_files
    /\ session_files["S01"].episode_count = 2
    /\ HasInstance /\ ~HasSession
    /\ Len(buffers[instance_id].episodic.items) = 2
    /\ last.op = "write_episode"
    /\ last.error = "RuntimeError"

\* Every variable but the record of the last call
AllButLast ==
    <<clock, origin_vars, backups, buffers, session_files, origin_name,
      master_state, instance_id, session_id, session_episode_count,
      validation_mode, faults>>

\* C25: an operation called out of lifecycle order raises and changes nothing:
\* create_instance with no Origin loaded; start_session,
\* consolidate_to_instance, consolidate_to_origin and delete_buffer with no
\* active instance; write_episode, write_semantic and end_session with no
\* active session.
C25_OutOfOrderFails ==
    [][/\ (origin_name = None /\ \E given \in {None} : create_instance(given))
             => last'.error = "RuntimeError" /\ UNCHANGED AllButLast
       /\ (~HasInstance /\ (\/ start_session(None)
                            \/ consolidate_to_instance
                            \/ consolidate_to_origin("none")
                            \/ delete_buffer))
             => last'.error = "RuntimeError" /\ UNCHANGED AllButLast
       /\ (~HasSession /\ (\/ \E p \in CapacityProposals, ri \in {"L3"}, u \in Uuids :
                                 write_episode(p, ri, u)
                           \/ \E c \in Concepts, d \in Definitions, u \in Uuids :
                                 write_semantic(c, d, "ep_custom_1", <<>>, None, u)
                           \/ end_session))
             => last'.error = "RuntimeError" /\ UNCHANGED AllButLast]_vars

\* C25 witness: after a successful consolidation, which left Origin at version
\* 2 and no buffer, a write_semantic has failed
C25_Witness ==
    /\ _get_current_version = 2
    /\ buffers = <<>>
    /\ instance_id = None
    /\ last.op = "write_semantic"
    /\ last.error = "RuntimeError"

\* The semantic entries of the active instance's buffer, now and after a step
Entries == IF HasInstance THEN buffers[instance_id].semantic.items ELSE <<>>

\* C26: every buffered entry, from its creation on and after every update,
\* has a confidence within [0,1] and the epistemic status of its confidence:
\* hypothesis below 0.45, provisional from 0.45 to below 0.80, confirmed from
\* 0.80.
C26_StatusFollowsConfidence ==
    \A i \in DOMAIN Entries :
        LET c == Entries[i].confidence IN
        /\ 0 <= c /\ c <= 1000
        /\ Entries[i].epistemic_status =
               (IF c < 450 THEN "hypothesis"
                ELSE IF c < 800 THEN "provisional" ELSE "confirmed")

\* C26 witness: an affirmation has brought an entry to exactly 0.80, confirmed
C26_Witness ==
    /\ last.op = "update_buffered_entry"
    /\ \E i \in DOMAIN Entries :
           /\ Entries[i].confidence = 800
           /\ Entries[i].epistemic_status = "confirmed"
           /\ Entries[i].signal_history["user_affirmation"] = 1

\* The resolution state of buffered entry i, now and after the step
ResolutionOf(i) == buffers[instance_id].semantic.items[i].resolution_state
ResolutionAfter(i) == buffers'[instance_id].semantic.items[i].resolution_state

\* C27: resolution_state is a fixed transition system. An entry starts
\* unresolved; an update resolves it exactly when it leaves the status
\* confirmed while the entry was unresolved; only the loop exit, on an
\* unresolved entry, suppresses it; a resolved or suppressed entry keeps its
\* state under every updater operation.
C27_ResolutionTransitions ==
    [][ /\ \A c \in Concepts, d \in Definitions, u \in Uuids :
            write_semantic(c, d, "ep_custom_1", <<>>, None, u)
            /\ last'.error = "none"
            => buffers'[instance_id].semantic.items[
                   Len(buffers'[instance_id].semantic.items)
               ].resolution_state = "unresolved"
        /\ \A i \in BufferedIndexes :
            /\ \A b \in UpdaterBatches :
                 update_buffered_entry(i, b) =>
                    ResolutionAfter(i) =
                       IF /\ ResolutionOf(i) = "unresolved"
                          /\ buffers'[instance_id].semantic.items[i]
                                 .epistemic_status = "confirmed"
                       THEN "resolved" ELSE ResolutionOf(i)
            /\ force_exit_buffered_entry(i) =>
                    ResolutionAfter(i) =
                       IF ResolutionOf(i) = "unresolved"
                       THEN "suppressed" ELSE ResolutionOf(i)
            /\ increment_buffered_attempt(i) =>
                    ResolutionAfter(i) = ResolutionOf(i)
            /\ ResolutionAfter(i) = "suppressed"
               /\ ResolutionOf(i) # "suppressed"
               => force_exit_buffered_entry(i)
      ]_vars

\* C27 witness: the loop exit was applied to a resolved entry, which stays
\* resolved
C27_Witness ==
    /\ last.op = "force_exit_buffered_entry"
    /\ \E i \in DOMAIN Entries :
           /\ Entries[i].resolution_state = "resolved"
           /\ Entries[i].epistemic_status = "confirmed"

\* C28: an update of a suppressed entry, with any batch of signals, leaves
\* its confidence and its epistemic status unchanged.
C28_SuppressedIsFrozen ==
    [][ \A i \in BufferedIndexes, b \in UpdaterBatches :
            update_buffered_entry(i, b)
            /\ ResolutionOf(i) = "suppressed"
            => /\ buffers'[instance_id].semantic.items[i].confidence
                     = buffers[instance_id].semantic.items[i].confidence
               /\ buffers'[instance_id].semantic.items[i].epistemic_status
                     = buffers[instance_id].semantic.items[i].epistemic_status
      ]_vars

\* How often signal s occurs in batch b
Occurrences(b, s) == Cardinality({ k \in DOMAIN b : b[k] = s })

\* The batches that consist of copies of one capped signal only
CappedSignals == {"repeated_occurrence", "consistent_recall", "user_affirmation"}
CapOf(s) == IF s = "user_affirmation" THEN 1 ELSE 3
OnlyCopiesOf(b, s) == \A k \in DOMAIN b : b[k] = s

\* C29: the caps hold over an entry's lifetime however the signals are
\* grouped: an update whose batch consists of a capped signal only adds that
\* signal's delta at most as many times as the cap leaves after the
\* applications the entry's history already counts (3 for
\* repeated_occurrence and consistent_recall, 1 for user_affirmation, whose
\* application may also lift the confidence to 0.80).
C29_CapsOverLifetime ==
    [][ \A i \in BufferedIndexes, b \in UpdaterBatches, s \in CappedSignals :
            update_buffered_entry(i, b) /\ OnlyCopiesOf(b, s)
            => LET e == buffers[instance_id].semantic.items[i]
                   left == Max(0, CapOf(s) - e.signal_history[s])
                   delta == IF s = "repeated_occurrence" THEN 50
                            ELSE IF s = "consistent_recall" THEN 40 ELSE 300
                   step == IF e.resolution_state = "resolved" THEN delta
                           ELSE IF e.resolution_state = "unresolved"
                                THEN delta \div 2 ELSE 0
                   floor == IF s = "user_affirmation" /\ left > 0
                            THEN ConfirmedThreshold ELSE 0
               IN  buffers'[instance_id].semantic.items[i].confidence
                      <= Max(floor, e.confidence + Min(left, Len(b)) * step)
      ]_vars

\* C30: an update whose batch contains user_affirmation, applied to an entry
\* that never received it, leaves the confidence at 0.80 or more and the
\* status confirmed, whatever else the batch contains.
C30_AffirmationForcesConfirmed ==
    [][ \A i \in BufferedIndexes, b \in UpdaterBatches :
            /\ update_buffered_entry(i, b)
            /\ Occurrences(b, "user_affirmation") > 0
            /\ buffers[instance_id].semantic.items[i]
                   .signal_history["user_affirmation"] = 0
            => /\ buffers'[instance_id].semantic.items[i].confidence >= 800
               /\ buffers'[instance_id].semantic.items[i].epistemic_status
                     = "confirmed"
      ]_vars

\* C31: should_ask_clarification is true exactly while the attempts are below
\* the limit of the entry's stakes level (low 2, medium 3, high 4), and false
\* from the limit onward; every round of a dialogue puts its question
\* exactly in that case.
C31_AskBelowLimit ==
    [][ \A i \in BufferedIndexes :
           LET e == buffers[instance_id].semantic.items[i]
               limit == IF e.stakes_level = "low" THEN 2
                        ELSE IF e.stakes_level = "medium" THEN 3 ELSE 4
           IN /\ should_ask_clarification(e) <=> e.clarification_attempts < limit
              /\ ask_buffered_clarification(i) =>
                    last'.ret = IF e.clarification_attempts < limit THEN 1 ELSE 0
      ]_vars

\* C31 witness: a high-stakes entry at attempt 4 was refused a further question
C31_Witness ==
    /\ last.op = "ask_buffered_clarification"
    /\ last.ret = 0
    /\ \E i \in DOMAIN Entries :
           /\ Entries[i].stakes_level = "high"
           /\ Entries[i].clarification_attempts = 4

\* A round of a dialogue on entry i that puts a question
QuestionPut(i) == ask_buffered_clarification(i) /\ last'.ret = 1

\* C32: every clarification dialogue terminates. Where attempts are counted
\* only by rounds that consulted should_ask_clarification, an entry is asked
\* at most the limit of its stakes level (low 2, medium 3, high 4) times;
\* once should_ask_clarification is false it stays false; the loop exit moves
\* a still unresolved entry to suppressed with forced_exit set; and no
\* behaviour puts questions forever.
C32_DialogueTerminates ==
    /\ [][ \A i \in BufferedIndexes :
              LET e == buffers[instance_id].semantic.items[i]
                  after == buffers'[instance_id].semantic.items[i]
                  limit == IF e.stakes_level = "low" THEN 2
                           ELSE IF e.stakes_level = "medium" THEN 3 ELSE 4
              IN /\ e.clarification_attempts <= limit
                 /\ QuestionPut(i) =>
                       /\ e.clarification_attempts < limit
                       /\ after.clarification_attempts
                             = e.clarification_attempts + 1
                 /\ ~should_ask_clarification(e) =>
                       /\ ~should_ask_clarification(after)
                       /\ ~QuestionPut(i)
                 /\ force_exit_buffered_entry(i)
                    /\ e.resolution_state = "unresolved"
                    => /\ after.resolution_state = "suppressed"
                       /\ "forced_exit" \in DOMAIN after
                       /\ after["forced_exit"] = TRUE
         ]_vars
    /\ <>[][ \A i \in BufferedIndexes : ~QuestionPut(i) ]_vars

\* C32 witness: a low-stakes entry was asked twice, the limit, and has had
\* its loop exited while still unresolved
C32_Witness ==
    /\ last.op = "force_exit_buffered_entry"
    /\ \E i \in DOMAIN Entries :
           /\ Entries[i].stakes_level = "low"
           /\ Entries[i].clarification_attempts = 2
           /\ Entries[i].resolution_state = "suppressed"
           /\ "forced_exit" \in DOMAIN Entries[i]

\* A denylisted name occurs as a key somewhere inside the JSON value v
RECURSIVE OccursIn(_)
OccursIn(v) ==
    IF v.type = "dict"
    THEN \E i \in DOMAIN v.items :
            \/ v.items[i].key \in EPISODIC_FORBIDDEN_FIELDS
            \/ OccursIn(v.items[i].value)
    ELSE IF v.type = "list"
    THEN \E i \in DOMAIN v.items : OccursIn(v.items[i])
    ELSE FALSE

\* C33: forbidden-field detection is depth-independent. Whenever a
\* denylisted name occurs as a key anywhere in the nested structure of a
\* proposed episode, the validator reports a forbidden-field error, and the
\* strict gate rejects the episode with it.
C33_ForbiddenAtAnyDepth ==
    [][ \A p \in ScanProposals, u \in Uuids :
            /\ HasSession /\ ~session_full
            /\ OccursIn(p.context)
            /\ write_episode(p, "L3", u)
            => /\ last'.error = "MSPValidationError"
               /\ \E k \in DOMAIN last'.errors :
                      last'.errors[k][1] = "Forbidden field found"
               /\ buffers' = buffers
      ]_vars

\* C34: the absence of the whole indexed_state is acceptable only at L1 and
\* L2. An episode proposed at L3 or L3+ whose emotive_snapshot has no
\* indexed_state fails validation, so the strict gate rejects it.
C34_IndexedStateRequiredAtL3 ==
    [][ \A p \in SnapshotProposals, ri \in AllRiLevels \ {"L1", "L2"},
           u \in Uuids :
            /\ HasSession /\ ~session_full
            /\ "indexed_state" \notin DOMAIN p.emotive_snapshot
            /\ write_episode(p, ri, u)
            => /\ last'.error = "MSPValidationError"
               /\ buffers' = buffers
      ]_vars

\* C35: _apply_ri_filter is idempotent and repeatable. For every episode,
\* with or without a timestamp, and every RI level, running it again later on
\* the same episode gives the same output, and applying it to its own output
\* changes nothing.
C35_FilterIdempotent ==
    [][ \A p \in FilterProposals, ri \in AllRiLevels :
            LET first == _apply_ri_filter_at(p, ri, now_iso)
            IN /\ _apply_ri_filter_at(p, ri, now_iso') = first
               /\ _apply_ri_filter_at(first, ri, now_iso') = first
      ]_vars

\* C36: the episode list of a SessionRecord holds exactly the episodes
\* written during that session: its length equals the record's
\* episode_count, also after earlier sessions of the instance whose episodes
\* are still in the buffer.
C36_RecordHoldsSessionEpisodes ==
    \A f \in DOMAIN session_files :
        Len(session_files[f].episodes) = session_files[f].episode_count

\* C37: a session is scoped inside one instance. While a session stays
\* active the active instance, whose buffer receives the session's episodes
\* and entries and which the SessionRecord names, does not change: what is
\* written lands in the buffer of the instance that was active at
\* start_session, and the record made by end_session names that instance.
C37_SessionInsideOneInstance ==
    [][ HasSession /\ session_id' = session_id => instance_id' = instance_id
      ]_vars

\* C38: each buffered episode is merged into Origin at most once. When a
\* consolidation has failed after the episodic merge, the episodes of the
\* buffer are already in Origin's list, and the retried consolidation does
\* not append them again.
C38_MergedAtMostOnce ==
    [][ /\ last.op = "consolidate_to_origin"
        /\ last.error = "MSPConsolidationError"
        /\ last.failed_at \in {"merge_semantic", "merge_sensory", "verify"}
        /\ \E fault \in Faults : consolidate_to_origin(fault)
        => episodic_master'.items = episodic_master.items
      ]_vars

\* C39: using only the orchestrator's operations, every buffered semantic
\* entry keeps confidence 0.3 from write_semantic until consolidation, and a
\* consolidation into Origin neither adds nor replaces a semantic entry in
\* Origin.
C39_OrchestratorNeverPromotes ==
    [][ /\ \A id \in DOMAIN buffers' :
            \A i \in DOMAIN buffers'[id].semantic.items :
                buffers'[id].semantic.items[i].confidence = 300
        /\ Range(semantic_master'.items) \subseteq Range(semantic_master.items)
      ]_vars

\* C39 witness: a consolidation into Origin succeeded after a session that
\* had written a semantic entry for the concept Origin holds, and Origin
\* still holds its own entry only
C39_Witness ==
    /\ last.op = "consolidate_to_origin"
    /\ last.failed_at = "done"
    /\ \E f \in DOMAIN session_files :
           /\ session_files[f].semantic_updates # <<>>
           /\ session_files[f].semantic_updates[1].concept = <<"t", "e", "a">>
    /\ Len(semantic_master.items) = 1
    /\ semantic_master.items[1].semantic_id = <<"sem", "S00", "0f0f0f">>

\* C40: episode identifiers are unique. After any sequence of write_episode
\* calls, with or without an episode_id supplied in the proposal and at any
\* RI level, no two episodes of an instance buffer share an episode_id, and
\* so no two episodes merged from it into Origin do.
\* Identifiers are compared as text
DistinctEpisodeIds(items) ==
    \A i, j \in DOMAIN items :
        i # j => ToString(items[i].episode_id) # ToString(items[j].episode_id)

\* The episodes of Origin that were merged from the buffer of an instance
MergedFrom(id) ==
    SelectSeq(episodic_master.items, LAMBDA e : e.msp_metadata.instance_id = id)

C40_EpisodeIdsUnique ==
    \A id \in DOMAIN buffers :
        /\ DistinctEpisodeIds(buffers[id].episodic.items)
        /\ DistinctEpisodeIds(MergedFrom(id))

====
